---- MODULE Spec2Model ----
(***************************************************************************)
(* Model of the polyvol trading engine: the StrategyRunner that fans one   *)
(* market quote out to every strategy, the entry / exit decisions of       *)
(* BaseStrategy, the Trade record and the trades table of the Database.    *)
(*                                                                         *)
(* Units.  Prices are integers in percent (0.09 is 9).  Wall-clock time is *)
(* an integer number of 5-minute units, so that 15 minutes is 3.           *)
(* time_remaining is in seconds.  Dollar amounts are integers (1.0 is 1).  *)
(* Quantities that the code computes by division (shares, pnl_pct, pnl)    *)
(* are exact fractions [n |-> numerator, d |-> denominator].               *)
(***************************************************************************)
EXTENDS Integers, Sequences, FiniteSets, TLC

\* ------------------------------------------------------------------ bounds
\* the clock stops advancing at MaxTime
MaxTime == 4
\* the trades table holds at most MaxTrades rows
MaxTrades == 6
\* orders counted per (strategy, market) pair
MaxOrders == 2

\* ------------------------------------------------------- program constants
\* Optional[float] = None
Null == 0 - 1
\* bet_size = 1.0 (runner.py:262)
bet_size == 1
\* self.spending_limit = 5.0 (runner.py:78)
spending_limit == 5
\* self.spending_window_duration = timedelta(minutes=15) (runner.py:79)
spending_window_duration == 3
\* timedelta(minutes=15) added to utcnow() when a cooldown is armed (runner.py:481)
cooldown_duration == 3
\* ExitConfig.resolution_exit_threshold (config.py:59)
resolution_exit_threshold == 120
\* check_entry refuses a market with less than 180 s left (base.py:100)
min_entry_time_remaining == 180
\* the seconds of one unit of the clock: timedelta(minutes=15) is 3 units
unit_seconds == 300

\* ---------------------------------------------------------------- fractions
\* a float is kept as an exact fraction in lowest terms with d > 0
Abs(a) == IF a < 0 THEN 0 - a ELSE a
RECURSIVE GCD(_, _)
GCD(a, b) == IF b = 0 THEN a ELSE GCD(b, a % b)
Frac(a, b) ==
  IF b = 0 THEN [n |-> a, d |-> 0]
  ELSE LET g == GCD(Abs(a), Abs(b))
           sgn == IF b < 0 THEN 0 - 1 ELSE 1
       IN [n |-> sgn * (a \div g), d |-> sgn * (b \div g)]
FracMul(x, y) == Frac(x.n * y.n, x.d * y.d)
FracEq(x, y) == x.d # 0 /\ y.d # 0 /\ x.n * y.d = y.n * x.d
FracAdd(x, y) == Frac(x.n * y.d + y.n * x.d, x.d * y.d)
FracSub(x, y) == Frac(x.n * y.d - y.n * x.d, x.d * y.d)
FracDiv(x, y) == Frac(x.n * y.d, x.d * y.n)
FracLt(x, y) == x.n * y.d < y.n * x.d
\* a percent price as a fraction of 1
PriceFrac(p) == Frac(p, 100)

\* ------------------------------------------------------------- strategies
\* DEFAULT_STRATEGIES of volatility.py, thresholds in percent
DEFAULT_STRATEGIES ==
  [ultra_05_10 |-> [entry |-> 5,  exit |-> 10, direction |-> "normal"],
   ultra_05_15 |-> [entry |-> 5,  exit |-> 15, direction |-> "normal"],
   ultra_05_20 |-> [entry |-> 5,  exit |-> 20, direction |-> "normal"],
   deep_10_20  |-> [entry |-> 10, exit |-> 20, direction |-> "normal"],
   deep_10_25  |-> [entry |-> 10, exit |-> 25, direction |-> "normal"],
   deep_15_25  |-> [entry |-> 15, exit |-> 25, direction |-> "normal"],
   deep_15_30  |-> [entry |-> 15, exit |-> 30, direction |-> "normal"],
   value_20_25 |-> [entry |-> 20, exit |-> 25, direction |-> "normal"],
   value_20_30 |-> [entry |-> 20, exit |-> 30, direction |-> "normal"],
   value_20_35 |-> [entry |-> 20, exit |-> 35, direction |-> "normal"],
   mid_35_50   |-> [entry |-> 35, exit |-> 50, direction |-> "normal"],
   mid_40_50   |-> [entry |-> 40, exit |-> 50, direction |-> "normal"],
   mid_40_55   |-> [entry |-> 40, exit |-> 55, direction |-> "normal"],
   high_60_70  |-> [entry |-> 60, exit |-> 70, direction |-> "normal"],
   fade_80_70  |-> [entry |-> 80, exit |-> 70, direction |-> "fade"],
   fade_85_75  |-> [entry |-> 85, exit |-> 75, direction |-> "fade"],
   fade_90_80  |-> [entry |-> 90, exit |-> 80, direction |-> "fade"]]

StrategyIds == DOMAIN DEFAULT_STRATEGIES

\* condition ids of the markets the venue lists, one per asset
Conditions == {"btc", "eth"}

Keys == StrategyIds \X Conditions

\* ------------------------------------------------------------ PriceUpdate
\* `x if x else y` of Python: None and 0.0 are both falsy
Truthy(x) == x # Null /\ x # 0
OrElse(x, y) == IF Truthy(x) THEN x ELSE y

Min(a, b) == IF a <= b THEN a ELSE b

\* ------------------------------------------------ thresholds as doubles
\* Prices and thresholds are Python floats. A price in whole percent k is the
\* double nearest to k/100. A threshold the code computes from one is a
\* double that can lie one rounding step beside the double of its decimal
\* value: it is kept as [v, eps], v the decimal value in percent and eps the
\* sign of (the computed double - the double of v/100)
Exactly(v) == [v |-> v, eps |-> 0]

\* the entry thresholds e in percent for which `e - 0.05` (base.py:141)
\* rounds below, and above, the double of (e - 5)/100
Minus5RoundsDown == {6, 9, 12, 15, 21, 22, 57, 58, 59, 60, 61, 69, 70, 71, 72, 73,
                     82, 83, 84, 85, 86, 94, 95, 96, 97, 98}
Minus5RoundsUp == {7, 14, 17, 20, 26, 27, 28, 34, 40, 46, 52, 53, 54}
\* the entry thresholds e for which `e + 0.05` (base.py:120-124) rounds
\* below, and above, the double of (e + 5)/100
Plus5RoundsDown == {12, 18, 29, 35, 41}
Plus5RoundsUp == {1, 7, 10, 16, 17, 52, 53, 54, 55, 56, 64, 65, 66, 67, 68,
                  77, 78, 79, 80, 81, 89, 90, 91, 92, 93}
\* the entry thresholds e for which `e + 0.10` (base.py:121-124) rounds
\* below, and above, the double of (e + 10)/100
Plus10RoundsDown == {24, 35, 36, 57, 58, 69, 70, 71, 82, 83}
Plus10RoundsUp == {2, 5, 11, 14, 19, 20, 31, 32, 33, 34}
\* the exit thresholds x for which `1 - x` (base.py:188) rounds below, and
\* above, the double of (100 - x)/100
OneMinusRoundsDown == {7, 32, 33, 34, 54, 55, 56, 66, 67, 68, 77, 78, 79, 80, 81,
                       89, 90, 91, 92, 93}
OneMinusRoundsUp == {18, 41, 42, 43, 57, 58, 59, 69, 70, 71, 82, 83, 84, 85,
                     94, 95, 96, 97, 98, 99}

\* the computed double for the decimal value v, given the operands that
\* round below and above
Rounded(v, x, down, up) ==
  [v |-> v, eps |-> IF x \in down THEN 0 - 1 ELSE IF x \in up THEN 1 ELSE 0]

\* comparisons of a price in whole percent with a computed threshold
FloatLt(p, t) == p < t.v \/ (p = t.v /\ t.eps > 0)
FloatGe(p, t) == p > t.v \/ (p = t.v /\ t.eps <= 0)
FloatGt(p, t) == p > t.v \/ (p = t.v /\ t.eps < 0)

\* ------------------------------------------------- BaseStrategy.check_entry
NoSignal == [should_enter |-> FALSE, side |-> "YES", price |-> 0]

\* the band test of check_entry (base.py:103-156), after the expiry test
check_entry_band(sid, has_position, u) ==
  LET s == DEFAULT_STRATEGIES[sid] IN
  IF has_position THEN NoSignal
  ELSE IF s.direction = "fade" THEN
    LET buy_price == OrElse(u.no_ask, u.no_price)
        trigger_price == OrElse(u.yes_bid, u.yes_price)
        sum == IF s.entry >= 90
               THEN Rounded(s.entry + 10, s.entry, Plus10RoundsDown, Plus10RoundsUp)
               ELSE Rounded(s.entry + 5, s.entry, Plus5RoundsDown, Plus5RoundsUp)
        max_trigger == IF FloatLt(100, sum) THEN Exactly(100) ELSE sum
    IN IF s.entry <= trigger_price /\ FloatLt(trigger_price, max_trigger)
       THEN [should_enter |-> TRUE, side |-> "NO", price |-> buy_price]
       ELSE NoSignal
  ELSE
    LET buy_price == OrElse(u.yes_ask, u.yes_price)
        difference == Rounded(s.entry - 5, s.entry, Minus5RoundsDown, Minus5RoundsUp)
        min_entry == IF FloatGt(0, difference) THEN Exactly(0) ELSE difference
    IN IF FloatGt(buy_price, min_entry) /\ buy_price <= s.entry
       THEN [should_enter |-> TRUE, side |-> "YES", price |-> buy_price]
       ELSE NoSignal

check_entry(sid, has_position, u) ==
  IF u.time_remaining # Null /\ u.time_remaining < min_entry_time_remaining
  THEN NoSignal
  ELSE check_entry_band(sid, has_position, u)

\* -------------------------------------------------- BaseStrategy.check_exit
\* check_exit whose resolution exit waits for the market's expiry
check_exit_ResolutionAtExpiry(sid, position, u, resolution_threshold) ==
  LET s == DEFAULT_STRATEGIES[sid]
      current_price == IF position.side = "YES"
                       THEN OrElse(u.yes_bid, u.yes_price)
                       ELSE OrElse(u.no_bid, u.no_price)
      exit_target == IF s.direction = "fade"
                     THEN Rounded(100 - s.exit, s.exit, OneMinusRoundsDown, OneMinusRoundsUp)
                     ELSE Exactly(s.exit)
  IN IF FloatGe(current_price, exit_target) /\ current_price > position.entry_price
     THEN [signal |-> "TAKE_PROFIT", price |-> current_price]
     ELSE IF u.time_remaining # Null /\ u.time_remaining <= 0
     THEN [signal |-> "RESOLUTION_EXIT", price |-> current_price]
     ELSE [signal |-> "HOLD", price |-> current_price]

check_exit(sid, position, u, resolution_threshold) ==
  LET s == DEFAULT_STRATEGIES[sid]
      current_price == IF position.side = "YES"
                       THEN OrElse(u.yes_bid, u.yes_price)
                       ELSE OrElse(u.no_bid, u.no_price)
      exit_target == IF s.direction = "fade"
                     THEN Rounded(100 - s.exit, s.exit, OneMinusRoundsDown, OneMinusRoundsUp)
                     ELSE Exactly(s.exit)
  IN IF FloatGe(current_price, exit_target) /\ current_price > position.entry_price
     THEN [signal |-> "TAKE_PROFIT", price |-> current_price]
     ELSE IF u.time_remaining # Null /\ u.time_remaining < resolution_threshold
     THEN [signal |-> "RESOLUTION_EXIT", price |-> current_price]
     ELSE [signal |-> "HOLD", price |-> current_price]

\* --------------------------------------------------------------- Trade
NoFrac == Frac(0, 0)

\* Trade(...) as constructed in _check_entries (runner.py:343-357)
NewTrade(sid, cid, side, price, shares, now, is_paper) ==
  [id |-> Null, strategy_id |-> sid, condition_id |-> cid, side |-> side,
   entry_price |-> price, entry_time |-> now, shares |-> shares,
   exit_price |-> Null, exit_time |-> Null, exit_reason |-> "",
   pnl |-> NoFrac, pnl_pct |-> NoFrac, is_win |-> Null,
   status |-> "open", is_paper |-> is_paper]

\* Trade.close with the NO side computing (entry - exit) / entry
close_MirroredNo(trade, exit_price, exit_reason, now) ==
  LET pct == IF trade.side = "YES"
             THEN Frac(exit_price - trade.entry_price, trade.entry_price)
             ELSE Frac(trade.entry_price - exit_price, trade.entry_price)
  IN [trade EXCEPT !.exit_price = exit_price, !.exit_time = now,
                   !.exit_reason = exit_reason, !.status = "closed",
                   !.pnl_pct = pct,
                   !.pnl = FracMul(FracMul(trade.shares, PriceFrac(trade.entry_price)), pct),
                   !.is_win = IF exit_reason \in {"TAKE_PROFIT", "RESOLUTION_WIN"}
                              THEN 1 ELSE 0]

\* Trade.close that counts every exit as a win
close_AlwaysWin(trade, exit_price, exit_reason, now) ==
  LET pct == Frac(exit_price - trade.entry_price, trade.entry_price)
  IN [trade EXCEPT !.exit_price = exit_price, !.exit_time = now,
                   !.exit_reason = exit_reason, !.status = "closed",
                   !.pnl_pct = pct,
                   !.pnl = FracMul(FracMul(trade.shares, PriceFrac(trade.entry_price)), pct),
                   !.is_win = 1]

\* Trade.close (models.py:143-167); is_win is kept as the 1 / 0 the row stores
close(trade, exit_price, exit_reason, now) ==
  LET pct == IF trade.side = "YES"
             THEN Frac(exit_price - trade.entry_price, trade.entry_price)
             ELSE Frac(exit_price - trade.entry_price, trade.entry_price)
  IN [trade EXCEPT !.exit_price = exit_price, !.exit_time = now,
                   !.exit_reason = exit_reason, !.status = "closed",
                   !.pnl_pct = pct,
                   !.pnl = FracMul(FracMul(trade.shares, PriceFrac(trade.entry_price)), pct),
                   !.is_win = IF exit_reason \in {"TAKE_PROFIT", "RESOLUTION_WIN"}
                              THEN 1 ELSE 0]

\* the division of Trade.close raises ZeroDivisionError
close_raises(trade) == trade.entry_price = 0

\* ------------------------------------------------------------- Database
\* Database.save_trade: INSERT, the new row takes the next autoincrement id
save_trade(rows, trade) == Append(rows, [trade EXCEPT !.id = Len(rows) + 1])

\* Database.update_trade: UPDATE the exit columns WHERE id = trade.id
update_trade(rows, trade) ==
  [i \in 1..Len(rows) |->
     IF rows[i].id = trade.id
     THEN [rows[i] EXCEPT !.exit_price = trade.exit_price,
                          !.exit_time = trade.exit_time,
                          !.pnl = trade.pnl, !.pnl_pct = trade.pnl_pct,
                          !.is_win = trade.is_win,
                          !.exit_reason = trade.exit_reason,
                          !.status = trade.status]
     ELSE rows[i]]

\* Database.get_open_trades: SELECT * FROM trades WHERE status = 'open'
get_open_trades(rows) == {i \in 1..Len(rows) : rows[i].status = "open"}

\* Database.has_traded_market: any row, open or closed, of the pair
has_traded_market(rows, sid, cid) ==
  \E i \in 1..Len(rows) : rows[i].strategy_id = sid /\ rows[i].condition_id = cid

KeyOf(trade) == <<trade.strategy_id, trade.condition_id>>

\* dict helpers
Put(f, k, v) == [x \in (DOMAIN f) \cup {k} |-> IF x = k THEN v ELSE f[x]]
Del(f, k) == [x \in (DOMAIN f) \ {k} |-> f[x]]
EmptyDict == [x \in {} |-> 0]

\* StrategyRunner._load_open_trades that restores nothing
load_open_trades_Nothing(rows) == EmptyDict

\* StrategyRunner._load_open_trades: open_trades[key] = trade for each open
\* row in id order, so a later row of the same key replaces an earlier one
load_open_trades(rows) ==
  LET open == get_open_trades(rows)
      keys == {KeyOf(rows[i]) : i \in open}
      last(k) == CHOOSE i \in open : /\ KeyOf(rows[i]) = k
                                    /\ \A j \in open : KeyOf(rows[j]) = k => j <= i
  IN [k \in keys |-> rows[last(k)]]

\* ------------------------------------------------------------------ state
VARIABLES
  mode,                   \* Config.mode: "paper" or "live"
  live_trader,            \* StrategyRunner.live_trader is not None
  running,                \* StrategyRunner._running with the loop task alive
  strategy_ids,           \* StrategyRunner.strategies, in Config order
  assets,                 \* Config.collection.assets, as the conditions tracked
  markets,                \* PriceCollector.markets: condition id -> latest quote
  open_trades,            \* StrategyRunner.open_trades: key -> Trade
  positions,              \* BaseStrategy.positions of every strategy: key -> Position
  cooldowns,              \* StrategyRunner.cooldowns: key -> until
  enabled_strategy_ids,   \* StrategyRunner.enabled_strategy_ids
  config_enabled,         \* Config.strategies: the ids with enabled = true
  strategy_status,        \* the strategies table of the Store: id -> status
  token_ids,              \* the markets whose Market carries CLOB token ids
  spent_in_window,        \* StrategyRunner.spent_in_window
  spending_window_start,  \* StrategyRunner.spending_window_start
  trades,                 \* the trades table of the Store, row i has id i
  prices,                 \* the prices table of the Store: condition id -> its latest row
  now,                    \* datetime.utcnow()
  live_spend,             \* history: per time, the stakes of the live orders the venue accepted
  last_cid,               \* history: the market whose quote the latest step processed, "" if it processed none
  last_closed,            \* history: the keys whose close that step completed
  rerun_closed,           \* history: the keys closed by the pass before, when the latest step
                          \* processed the very quote that pass had processed
  last_events,            \* history: what the latest step did, as [kind, key, price, reason]
  buy_orders,             \* history: key -> buy orders the venue accepted
  sell_orders,            \* history: key -> sell orders sent to the venue
  probe                   \* the latest evaluation of a pure function

vars == <<mode, live_trader, running, strategy_ids, assets, markets, open_trades, positions, cooldowns,
          enabled_strategy_ids, config_enabled, strategy_status, token_ids,
          spent_in_window, spending_window_start, trades, prices,
          now, live_spend, last_cid, last_closed, rerun_closed, last_events,
          buy_orders, sell_orders, probe>>

NoProbe == [sid |-> "", u |-> <<>>, signal |-> NoSignal, applied |-> FALSE]

\* the in-memory state one _process_price call reads and writes
RunnerState ==
  [trades |-> trades, open_trades |-> open_trades, positions |-> positions,
   cooldowns |-> cooldowns, spent_in_window |-> spent_in_window,
   spending_window_start |-> spending_window_start, live_spend |-> live_spend,
   closed |-> {}, events |-> {}, buy_orders |-> buy_orders,
   sell_orders |-> sell_orders]

\* one thing a strategy iteration did
Event(kind, key, price, reason) ==
  [kind |-> kind, key |-> key, price |-> price, reason |-> reason, size |-> NoFrac]
AddEvent(R, kind, key, price, reason) ==
  [R EXCEPT !.events = @ \cup {Event(kind, key, price, reason)}]
\* an order handed to the venue, with the number of shares submitted
AddOrder(R, kind, key, price, reason, size) ==
  [R EXCEPT !.events = @ \cup {[Event(kind, key, price, reason) EXCEPT !.size = size]}]

\* TARGET_INVESTMENT of _place_order (1.1 dollars), in cents
TARGET_INVESTMENT == 110

\* LiveTrader._place_order (live_trader.py:351-384): the number of shares in
\* the order handed to the venue, for a price in percent; a BUY is sized
\* from TARGET_INVESTMENT and the price, whatever size the caller asks for,
\* a SELL carries the caller's size
place_order_size(price, size, side) ==
  IF side = "BUY" THEN Frac(TARGET_INVESTMENT, price) ELSE size
\* the entries of a counting dict, 0 for a key it does not hold
Count(f, k) == IF k \in DOMAIN f THEN f[k] ELSE 0

Ret(r) == [r |-> r, raised |-> FALSE]
Raise(r) == [r |-> r, raised |-> TRUE]

\* --------------------------------------------- StrategyRunner._check_exits
\* the cached Trade object after a Trade.close whose Store write did not
\* complete: its status is closed; its exit fields are written again by the
\* next Trade.close before anything reads them, so they are not kept
in_memory_closed(trade) == [trade EXCEPT !.status = "closed"]

\* f is what one strategy iteration meets: every call succeeds ("ok"), the
\* live order returns no order id ("order_fail"), save_trade / update_trade
\* raises ("write_fail"), update_strategy_stats raises ("stats_fail")

\* "LIVE TRADING EXIT" that gives the exit up when the sell order fails
sell_order_AbortsOnFailure(R, key, sig, size, f, live_path) ==
  IF ~live_path THEN [R |-> R, abort |-> FALSE]
  ELSE IF f = "order_fail"
  THEN [R |-> AddOrder(R, "sell_fail", key, sig.price, sig.signal,
                       place_order_size(sig.price, size, "SELL")),
        abort |-> TRUE]
  ELSE [R |-> AddOrder([R EXCEPT !.sell_orders = Put(@, key, Count(@, key) + 1)],
                       "sell_ok", key, sig.price, sig.signal,
                       place_order_size(sig.price, size, "SELL")),
        abort |-> FALSE]

\* "LIVE TRADING EXIT" (runner.py:421-456): the sell order is sent; when it
\* returns no order id the failure is logged and the close goes on
sell_order(R, key, sig, size, f, live_path) ==
  IF ~live_path THEN [R |-> R, abort |-> FALSE]
  ELSE [R |-> AddOrder([R EXCEPT !.sell_orders = Put(@, key, Count(@, key) + 1)],
                       IF f = "order_fail" THEN "sell_fail" ELSE "sell_ok",
                       key, sig.price, sig.signal,
                       place_order_size(sig.price, size, "SELL")),
        abort |-> FALSE]

check_exits(R, sid, u, f, t, md) ==
  LET key == <<sid, u.condition_id>> IN
  IF key \notin DOMAIN R.open_trades THEN Ret(R)
  ELSE
    LET trade == R.open_trades[key]
        position == IF key \in DOMAIN R.positions
                    THEN R.positions[key]
                    ELSE [side |-> trade.side, entry_price |-> trade.entry_price,
                          shares |-> trade.shares]
        sig == check_exit(sid, position, u, resolution_exit_threshold)
    IN
    IF sig.signal = "HOLD" THEN Ret(R)
    ELSE
      LET exit_reason == sig.signal
          closed == close(trade, sig.price, exit_reason, t)
          so == sell_order(R, key, sig, trade.shares, f, md = "live" /\ u.tokens)
          S == so.R
          rows == update_trade(S.trades, closed)
      IN
      IF so.abort THEN Ret(S)
      ELSE IF close_raises(trade) \/ f = "write_fail"
      THEN Raise([S EXCEPT !.open_trades = Put(@, key, in_memory_closed(trade)),
                           !.events = @ \cup {Event("close_raised", key, sig.price,
                                                    exit_reason)}])
      ELSE IF f = "stats_fail"
      THEN Raise([S EXCEPT !.open_trades = Put(@, key, in_memory_closed(trade)),
                           !.trades = rows,
                           !.events = @ \cup {Event("close_raised", key, sig.price,
                                                    exit_reason)}])
      ELSE Ret([S EXCEPT !.trades = rows,
                         !.open_trades = Del(@, key),
                         !.positions = Del(@, key),
                         !.cooldowns = IF exit_reason \in {"RESOLUTION_EXIT", "TIME_STOP"}
                                       THEN Put(@, key, t + cooldown_duration)
                                       ELSE @,
                         !.closed = @ \cup {key},
                         !.events = @ \cup {Event("closed", key, sig.price, exit_reason)}])

\* -------------------------------------------- StrategyRunner._check_entries
\* the early returns of _check_entries, with only the enabled test left
entry_blocked_EnabledOnly(R, sid, cid, t, enabled) ==
  sid \notin enabled

\* the early returns of _check_entries, without the max-1-trade rule
entry_blocked_NoOneShot(R, sid, cid, t, enabled) ==
  LET key == <<sid, cid>> IN
  \/ sid \notin enabled
  \/ key \in DOMAIN R.open_trades
  \/ (key \in DOMAIN R.cooldowns /\ t < R.cooldowns[key])

\* the early returns of _check_entries (runner.py:222-242)
entry_blocked(R, sid, cid, t, enabled) ==
  LET key == <<sid, cid>> IN
  \/ sid \notin enabled
  \/ key \in DOMAIN R.open_trades
  \/ (key \in DOMAIN R.cooldowns /\ t < R.cooldowns[key])
  \/ has_traded_market(R.trades, sid, cid)

\* `del self.cooldowns[trade_key]` when the cooldown test is reached and expired
expire_cooldown(R, sid, cid, t, enabled) ==
  LET key == <<sid, cid>> IN
  IF /\ sid \in enabled
     /\ key \notin DOMAIN R.open_trades
     /\ key \in DOMAIN R.cooldowns
     /\ t >= R.cooldowns[key]
  THEN [R EXCEPT !.cooldowns = Del(@, key)]
  ELSE R

\* "Check Spending Limit": reset the window once it is older than its duration
reset_window(R, t) ==
  IF t - R.spending_window_start > spending_window_duration
  THEN [R EXCEPT !.spending_window_start = t, !.spent_in_window = 0]
  ELSE R

\* calculate_bet_for_strategy guarded against a zero entry price
kelly_raises_Never(entry_price) == FALSE

\* calculate_bet_for_strategy divides by entry_price
kelly_raises(entry_price) == entry_price = 0

\* the (entry price, exit price, win rate) in percent, among those evaluated
\* below, for which the doubles of calculate_bet_for_strategy and
\* calculate_kelly give a Kelly percentage just above 0 where the decimal
\* values give exactly 0
KellyRoundsUp == {<<8, 10, 80>>, <<8, 20, 40>>}

\* calculate_kelly (kelly.py:19-36): 0 for a win/loss ratio that is not
\* positive, else W - (1 - W) / R; rounding is the sign of the rounding error
\* of the double the code computes, which decides the sign of a result whose
\* decimal value is 0
calculate_kelly(win_rate, win_loss_ratio, rounding) ==
  IF win_loss_ratio.n <= 0 THEN [v |-> Frac(0, 1), eps |-> 0]
  ELSE [v |-> FracSub(win_rate, FracDiv(FracSub(Frac(1, 1), win_rate), win_loss_ratio)),
        eps |-> rounding]

\* fractional_kelly (kelly.py:39-101): amount and percentage 0 when the Kelly
\* percentage is not above 0, else the fraction of it held between
\* min_bet_pct and max_bet_pct, and that share of the bankroll
fractional_kelly(bankroll, win_rate, win_loss_ratio, fraction, min_bet_pct, max_bet_pct, rounding) ==
  LET kelly == calculate_kelly(win_rate, win_loss_ratio, rounding)
      bet_pct == FracMul(kelly.v, fraction)
      bounded == IF FracLt(bet_pct, min_bet_pct) THEN min_bet_pct
                 ELSE IF FracLt(max_bet_pct, bet_pct) THEN max_bet_pct
                 ELSE bet_pct
  IN IF kelly.v.n < 0 \/ (kelly.v.n = 0 /\ kelly.eps <= 0)
     THEN [amount |-> Frac(0, 1), percentage |-> Frac(0, 1), kelly_fraction |-> kelly.v]
     ELSE [amount |-> FracMul(Frac(bankroll, 1), bounded), percentage |-> bounded,
           kelly_fraction |-> kelly.v]

\* calculate_bet_for_strategy (kelly.py:104-144) on prices and a win rate in
\* percent, the win rate Null when none is given: the win/loss ratio is the
\* profit per dollar, the win rate defaults to break-even plus 0.05, and the
\* bounds of fractional_kelly are its defaults
calculate_bet_for_strategy(bankroll, entry_price, exit_price, estimated_win_rate, fraction) ==
  LET profit_pct == Frac(exit_price - entry_price, entry_price)
      loss_pct == Frac(1, 1)
      win_loss_ratio == FracDiv(profit_pct, loss_pct)
      break_even_wr == FracDiv(loss_pct, FracAdd(loss_pct, profit_pct))
      win_rate == IF estimated_win_rate = Null
                  THEN FracAdd(break_even_wr, Frac(5, 100))
                  ELSE PriceFrac(estimated_win_rate)
      rounding == IF <<entry_price, exit_price, estimated_win_rate>> \in KellyRoundsUp
                  THEN 1 ELSE 0
  IN fractional_kelly(bankroll, win_rate, win_loss_ratio, fraction,
                      Frac(3, 100), Frac(15, 100), rounding)

\* the amount the runner reads (runner.py:253-260): a bankroll of 1000, half
\* Kelly and no win rate
kelly_amount(entry_price, exit_price) ==
  calculate_bet_for_strategy(1000, entry_price, exit_price, Null, Frac(1, 2)).amount

\* BaseStrategy.open_position: the position records the mid price of its side
open_position(u, side, shares) ==
  [side |-> side,
   entry_price |-> IF side = "YES" THEN u.yes_price ELSE u.no_price,
   shares |-> shares]

\* "LIVE TRADING EXECUTION" that books the stake before the order is answered
buy_order_ChargesFailedOrder(R, key, price, size, f, t, live_path) ==
  LET charged == [R EXCEPT !.spent_in_window = @ + bet_size] IN
  IF ~live_path THEN [R |-> R, abort |-> FALSE, is_paper |-> TRUE]
  ELSE IF f = "order_fail"
  THEN [R |-> AddOrder(charged, "buy_fail", key, Null, "",
                       place_order_size(price, size, "BUY")),
        abort |-> TRUE, is_paper |-> TRUE]
  ELSE [R |-> AddOrder([charged EXCEPT
                          !.live_spend = [@ EXCEPT ![t] = @ + bet_size],
                          !.buy_orders = Put(@, key, Count(@, key) + 1)],
                       "buy_ok", key, Null, "", place_order_size(price, size, "BUY")),
        abort |-> FALSE, is_paper |-> FALSE]

\* "LIVE TRADING EXECUTION" (runner.py:302-340): with a live trader and a
\* token id the buy order is sent; no order id abandons the entry, an order
\* id books the stake; without a token id no order is sent and the entry
\* goes on as a paper trade
buy_order(R, key, price, size, f, t, live_path) ==
  IF ~live_path THEN [R |-> R, abort |-> FALSE, is_paper |-> TRUE]
  ELSE IF f = "order_fail"
  THEN [R |-> AddOrder(R, "buy_fail", key, Null, "",
                       place_order_size(price, size, "BUY")),
        abort |-> TRUE, is_paper |-> TRUE]
  ELSE [R |-> AddOrder([R EXCEPT
                          !.spent_in_window = @ + bet_size,
                          !.live_spend = [@ EXCEPT ![t] = @ + bet_size],
                          !.buy_orders = Put(@, key, Count(@, key) + 1)],
                       "buy_ok", key, Null, "", place_order_size(price, size, "BUY")),
        abort |-> FALSE, is_paper |-> FALSE]

\* _check_entries whose spend gate books the stake before it rejects
check_entries_GateBooksStake(R, sid, u, f, t, md, enabled) ==
  LET cid == u.condition_id
      key == <<sid, cid>>
      R1 == expire_cooldown(R, sid, cid, t, enabled)
      signal == check_entry(sid, key \in DOMAIN R.positions, u)
      R2 == reset_window(R1, t)
      shares == IF signal.price > 0 THEN Frac(bet_size * 100, signal.price)
                ELSE Frac(0, 1)
      bo == buy_order(R2, key, signal.price, shares, f, t, md = "live" /\ u.tokens)
      R3 == bo.R
      trade == NewTrade(sid, cid, signal.side, signal.price, shares, t, bo.is_paper)
      rows == save_trade(R3.trades, trade)
  IN
  IF entry_blocked(R, sid, cid, t, enabled) THEN Ret(R1)
  ELSE IF ~signal.should_enter THEN Ret(R1)
  ELSE IF kelly_raises(signal.price) THEN Raise(R1)
  ELSE IF R2.spent_in_window + bet_size > spending_limit
  THEN Ret(AddEvent([R2 EXCEPT !.spent_in_window = @ + bet_size],
                    "limit_hit", key, signal.price, ""))
  ELSE IF bo.abort THEN Ret(R3)
  ELSE IF f = "write_fail" \/ f = "cancelled" THEN Raise(R3)
  ELSE Ret([R3 EXCEPT !.trades = rows,
                      !.open_trades = Put(@, key, rows[Len(rows)]),
                      !.positions = Put(@, key, open_position(u, signal.side, shares)),
                      !.events = @ \cup {Event("entered", key, signal.price, "")}])

\* StrategyRunner._check_entries (runner.py:216-380)
check_entries(R, sid, u, f, t, md, enabled) ==
  LET cid == u.condition_id
      key == <<sid, cid>>
      R1 == expire_cooldown(R, sid, cid, t, enabled)
      signal == check_entry(sid, key \in DOMAIN R.positions, u)
      R2 == reset_window(R1, t)
      shares == IF signal.price > 0 THEN Frac(bet_size * 100, signal.price)
                ELSE Frac(0, 1)
      bo == buy_order(R2, key, signal.price, shares, f, t, md = "live" /\ u.tokens)
      R3 == bo.R
      trade == NewTrade(sid, cid, signal.side, signal.price, shares, t, bo.is_paper)
      rows == save_trade(R3.trades, trade)
  IN
  IF entry_blocked(R, sid, cid, t, enabled) THEN Ret(R1)
  ELSE IF ~signal.should_enter THEN Ret(R1)
  ELSE IF kelly_raises(signal.price) THEN Raise(R1)
  ELSE IF R2.spent_in_window + bet_size > spending_limit
  THEN Ret(AddEvent(R2, "limit_hit", key, signal.price, ""))
  ELSE IF bo.abort THEN Ret(R3)
  ELSE IF f = "write_fail" \/ f = "cancelled" THEN Raise(R3)
  ELSE Ret([R3 EXCEPT !.trades = rows,
                      !.open_trades = Put(@, key, rows[Len(rows)]),
                      !.positions = Put(@, key, open_position(u, signal.side, shares)),
                      !.events = @ \cup {Event("entered", key, signal.price, "")}])

\* --------------------------------------------- StrategyRunner._process_price
\* for each strategy in registry order: exits, then entries, unless the
\* exit check raised
RECURSIVE process_price_EntriesFirst(_, _, _, _, _, _, _, _)
\* _process_price with the two calls of an iteration in the other order
process_price_EntriesFirst(R, u, ids, fails, i, t, md, enabled) ==
  IF i > Len(ids) THEN R
  ELSE
    LET en == check_entries(R, ids[i], u, fails[i], t, md, enabled)
        ex == IF en.raised THEN en.r
              ELSE check_exits(en.r, ids[i], u, fails[i], t, md).r
    IN process_price_EntriesFirst(ex, u, ids, fails, i + 1, t, md, enabled)

RECURSIVE process_price_StopsAtError(_, _, _, _, _, _, _, _)
\* _process_price without the try/except around an iteration: the first
\* exception ends the call
process_price_StopsAtError(R, u, ids, fails, i, t, md, enabled) ==
  IF i > Len(ids) THEN R
  ELSE
    LET ex == check_exits(R, ids[i], u, fails[i], t, md)
        en == IF ex.raised THEN ex
              ELSE check_entries(ex.r, ids[i], u, fails[i], t, md, enabled)
    IN IF en.raised THEN en.r
       ELSE process_price_StopsAtError(en.r, u, ids, fails, i + 1, t, md, enabled)

RECURSIVE process_price(_, _, _, _, _, _, _, _)
\* StrategyRunner._process_price (runner.py:202-214): an exception of an
\* iteration is logged and the loop goes on with the next strategy
process_price(R, u, ids, fails, i, t, md, enabled) ==
  IF i > Len(ids) THEN R
  ELSE
    LET ex == check_exits(R, ids[i], u, fails[i], t, md)
        en == IF ex.raised THEN ex.r
              ELSE check_entries(ex.r, ids[i], u, fails[i], t, md, enabled).r
    IN process_price(en, u, ids, fails, i + 1, t, md, enabled)

\* PriceCollector.get_market_price: the PriceUpdate built from the market
get_market_price(cid) ==
  [condition_id |-> cid,
   yes_price |-> markets[cid].yes_price, no_price |-> markets[cid].no_price,
   yes_bid |-> markets[cid].yes_bid, yes_ask |-> markets[cid].yes_ask,
   no_bid |-> markets[cid].no_bid, no_ask |-> markets[cid].no_ask,
   time_remaining |-> markets[cid].time_remaining,
   tokens |-> cid \in token_ids,
   timestamp |-> now]

\* the largest count a counting dict holds
MaxCount(f) == IF DOMAIN f = {} THEN 0
               ELSE CHOOSE m \in {f[k] : k \in DOMAIN f} : \A k \in DOMAIN f : f[k] <= m

\* --------------------------------------------- StrategyRunner._load_strategies
\* "Determine initial status" (runner.py:124-128): the status of the Store
\* row if there is one, else ACTIVE or TESTING after the Config flag
load_status(status_map, sid, cfg) ==
  IF sid \in DOMAIN status_map THEN status_map[sid]
  ELSE IF sid \in cfg THEN "active" ELSE "testing"

\* the strategies table after the upserts of _load_strategies
load_strategies(status_map, ids, cfg) ==
  [sid \in (DOMAIN status_map) \cup {ids[i] : i \in 1..Len(ids)} |->
     IF sid \in {ids[i] : i \in 1..Len(ids)}
     THEN load_status(status_map, sid, cfg)
     ELSE status_map[sid]]

\* enabled_strategy_ids as _load_strategies leaves it (runner.py:144-145)
load_enabled(status_map, ids, cfg) ==
  {sid \in {ids[i] : i \in 1..Len(ids)} : load_status(status_map, sid, cfg) = "active"}

\* ------------------------------------------------------- PriceCollector
\* a venue listing is [end_in, yes_price, no_price, tokens]: the seconds from
\* now to its endDate, its outcome prices and whether it has clobTokenIds

\* the Market a parser builds from a listing: the bid and ask fields keep
\* their default None (gamma_client.py:220-233, 352-363)
parse_market(l) == [yes_price |-> l.yes_price, no_price |-> l.no_price,
                    yes_bid |-> Null, yes_ask |-> Null, no_bid |-> Null,
                    no_ask |-> Null, time_remaining |-> l.end_in]

\* the listings of the direct path that _discover_markets keeps: not expired
\* (gamma_client.py:156, price_collector.py:107) and of a configured asset
direct_kept(direct, as) == {c \in DOMAIN direct : direct[c].end_in > 0 /\ c \in as}
\* the listings of the keyword search, made per configured asset, that it
\* keeps (price_collector.py:125-132)
search_kept(search, as) == {c \in DOMAIN search : search[c].end_in > 0 /\ c \in as}

\* _discover_markets on the tracked markets M with token-id holders toks:
\* the direct path first, the keyword search only when nothing is tracked
\* after it; _parse_market sets no token ids
discover_markets(M, toks, direct, search, as) ==
  LET d == direct_kept(direct, as)
      M1 == [c \in (DOMAIN M) \cup d |-> IF c \in d THEN parse_market(direct[c]) ELSE M[c]]
      toks1 == (toks \ d) \cup {c \in d : direct[c].tokens}
      k == search_kept(search, as)
  IN IF DOMAIN M1 # {} THEN [markets |-> M1, token_ids |-> toks1]
     ELSE [markets |-> [c \in k |-> parse_market(search[c])], token_ids |-> toks1 \ k]

\* an order-book answer is [yes_ok, no_ok, yes_bid, yes_ask, no_bid, no_ask,
\* raises]: whether each /book request returned, the best prices of the
\* books (None for an empty side) and whether the answer made the parsing raise

\* CLOBClient.get_best_bid_ask (clob_client.py:185-233): get_order_book gives
\* None on an HTTP error and that side stays None; the result dict is
\* returned in every case, so the caller's `if clob_data` is true
get_best_bid_ask(book) ==
  [ok |-> TRUE,
   yes_bid |-> IF book.yes_ok THEN book.yes_bid ELSE Null,
   yes_ask |-> IF book.yes_ok THEN book.yes_ask ELSE Null,
   no_bid |-> IF book.no_ok THEN book.no_bid ELSE Null,
   no_ask |-> IF book.no_ok THEN book.no_ask ELSE Null]

\* no entry of the market in the fresh listing
NoFresh == [present |-> FALSE, yes_price |-> Null, no_price |-> Null]

\* one iteration of the loop of _collect_prices for a market that has not
\* expired (price_collector.py:174-213): the prices of the fresh listing go
\* onto the Market, then the order books when the Market has token ids
collect_market(m, has_tokens, fresh, book) ==
  LET priced == IF fresh.present
                THEN [m EXCEPT !.yes_price = fresh.yes_price, !.no_price = fresh.no_price]
                ELSE m
      clob == get_best_bid_ask(book)
  IN IF ~has_tokens \/ book.raises \/ ~clob.ok THEN priced
     ELSE [priced EXCEPT !.yes_bid = clob.yes_bid, !.yes_ask = clob.yes_ask,
                         !.no_bid = clob.no_bid, !.no_ask = clob.no_ask]

\* the yes_price and no_price of the PriceUpdate that _collect_prices builds
\* and save_price inserts (price_collector.py:215-242, database.py:154-166)
\* for a Market m as the iteration left it: the midpoint of the book of a
\* side when its bid and its ask are both there, else the Market's price;
\* the prices table has no bid or ask column
price_row(m) ==
  [yes_price |-> IF Truthy(m.yes_bid) /\ Truthy(m.yes_ask)
                 THEN Frac(m.yes_bid + m.yes_ask, 200) ELSE PriceFrac(m.yes_price),
   no_price |-> IF Truthy(m.no_bid) /\ Truthy(m.no_ask)
                THEN Frac(m.no_bid + m.no_ask, 200) ELSE PriceFrac(m.no_price)]

\* `market.end_time <= now` (price_collector.py:170, 270)
expired(M) == {c \in DOMAIN M : M[c].time_remaining <= 0}

\* the markets after the loop of _collect_prices and the removal of the
\* expired ones
collect_prices(M, toks, fresh, books) ==
  [c \in (DOMAIN M) \ expired(M) |-> collect_market(M[c], c \in toks, fresh[c], books[c])]

\* the prices rows after the loop of _collect_prices: a row for every market
\* that has not expired, unless get_best_bid_ask raised, which leaves the
\* iteration through the handler of price_collector.py:250 before save_price;
\* a Market without token ids gets no book and its row carries its prices
save_prices(P, M, toks, fresh, books) ==
  LET M1 == collect_prices(M, toks, fresh, books)
      saved == {c \in DOMAIN M1 : ~(c \in toks /\ books[c].raises)}
  IN [c \in (DOMAIN P) \cup saved |->
        IF c \in saved
        THEN IF c \in toks THEN price_row(M1[c])
             ELSE [yes_price |-> PriceFrac(M1[c].yes_price),
                   no_price |-> PriceFrac(M1[c].no_price)]
        ELSE P[c]]

\* ---------------------------------------------------------------- actions
\* `if self.live_trader and self.config.mode == "live"` (runner.py:306, 422)
execution(md, trader) == IF md = "live" /\ trader THEN "live" ELSE "paper"

\* the in-memory state and the Store as one _process_price call leaves them
Commit(R) ==
  /\ Len(R.trades) <= MaxTrades
  /\ MaxCount(R.buy_orders) <= MaxOrders
  /\ MaxCount(R.sell_orders) <= MaxOrders
  /\ trades' = R.trades
  /\ open_trades' = R.open_trades
  /\ positions' = R.positions
  /\ cooldowns' = R.cooldowns
  /\ spent_in_window' = R.spent_in_window
  /\ spending_window_start' = R.spending_window_start
  /\ live_spend' = R.live_spend
  /\ last_closed' = R.closed
  /\ last_events' = R.events
  /\ buy_orders' = R.buy_orders
  /\ sell_orders' = R.sell_orders

\* one iteration of _run_loop for one tracked market; at most one strategy
\* iteration of the call, fail_at, meets an outcome other than "ok"
ProcessPrice(cid, fail_at, kind) ==
  /\ running
  /\ cid \in DOMAIN markets
  /\ Commit(process_price(RunnerState, get_market_price(cid), strategy_ids,
                          [i \in 1..Len(strategy_ids) |-> IF i = fail_at THEN kind ELSE "ok"],
                          1, now, execution(mode, live_trader), enabled_strategy_ids))
  /\ last_cid' = cid
  /\ rerun_closed' = IF last_cid = cid THEN last_closed ELSE {}
  /\ UNCHANGED <<mode, live_trader, prices, running, strategy_ids, assets, markets, enabled_strategy_ids,
                 config_enabled, strategy_status, token_ids, now, probe>>

\* PriceCollector._collect_prices stores the venue's latest quote of a
\* tracked market on the Market object
CollectPrices(cid, q) ==
  /\ cid \in assets
  /\ markets' = Put(markets, cid, q)
  /\ prices' = Put(prices, cid, price_row(q))
  /\ last_cid' = ""
  /\ last_closed' = {}
  /\ rerun_closed' = {}
  /\ last_events' = {}
  /\ UNCHANGED <<mode, live_trader, running, strategy_ids, assets, open_trades, positions, cooldowns,
                 enabled_strategy_ids, config_enabled, strategy_status, token_ids,
                 spent_in_window, spending_window_start,
                 trades, now, live_spend, buy_orders, sell_orders, probe>>

\* the wall clock advances by one unit
Tick ==
  /\ now < MaxTime
  /\ now' = now + 1
  /\ last_cid' = ""
  /\ last_closed' = {}
  /\ rerun_closed' = {}
  /\ last_events' = {}
  /\ UNCHANGED <<mode, live_trader, prices, running, strategy_ids, assets, markets, open_trades, positions,
                 cooldowns, enabled_strategy_ids, config_enabled, strategy_status,
                 token_ids, spent_in_window,
                 spending_window_start, trades, live_spend, buy_orders,
                 sell_orders, probe>>

\* the process ends and a new one runs StrategyRunner.__init__ and start():
\* empty dicts, the strategies of the Config loaded with their status, open
\* trades restored from the Store, the spending window initialised
Restart ==
  /\ running' = TRUE
  /\ markets' = EmptyDict
  /\ strategy_status' = load_strategies(strategy_status, strategy_ids, config_enabled)
  /\ enabled_strategy_ids' = load_enabled(strategy_status, strategy_ids, config_enabled)
  /\ open_trades' = load_open_trades(trades)
  /\ positions' = EmptyDict
  /\ cooldowns' = EmptyDict
  /\ spent_in_window' = 0
  /\ spending_window_start' = now
  /\ last_cid' = ""
  /\ last_closed' = {}
  /\ rerun_closed' = {}
  /\ last_events' = {}
  /\ UNCHANGED <<mode, live_trader, prices, strategy_ids, assets, config_enabled, token_ids, trades, now,
                 live_spend, buy_orders, sell_orders, probe>>

\* start() that catches the error of _load_open_trades and goes on
start_running_SwallowsLoadError(load_ok) == TRUE

\* StrategyRunner.start (runner.py:59-86): _running after the call; an
\* exception of _load_open_trades leaves start() before `_running = True`
\* and before the task of _run_loop is created
start_running(load_ok) == load_ok

\* the process ends and a new one runs __init__ and a start() in which the
\* SELECT of _load_open_trades raises: the strategies are loaded, the cache
\* is the empty dict of __init__, the loop is not started (the spending
\* window, which start() sets after the load, is read by the loop only)
FailedStart ==
  /\ running' = start_running(FALSE)
  /\ markets' = EmptyDict
  /\ strategy_status' = load_strategies(strategy_status, strategy_ids, config_enabled)
  /\ enabled_strategy_ids' = load_enabled(strategy_status, strategy_ids, config_enabled)
  /\ open_trades' = EmptyDict
  /\ positions' = EmptyDict
  /\ cooldowns' = EmptyDict
  /\ spent_in_window' = 0
  /\ spending_window_start' = now
  /\ last_cid' = ""
  /\ last_closed' = {}
  /\ rerun_closed' = {}
  /\ last_events' = {}
  /\ UNCHANGED <<mode, live_trader, prices, strategy_ids, assets, config_enabled, token_ids, trades, now,
                 live_spend, buy_orders, sell_orders, probe>>

\* StrategyRunner.stop (runner.py:88-103): _running is cleared and the task
\* is cancelled. in_flight = 0: the task sleeps between two cycles and ends
\* there. Otherwise the task is inside _process_price for cid, in the
\* iteration in_flight: CancelledError is raised at the await of save_trade
\* the task is suspended at (the buy order before it is a blocking call), it
\* is no Exception for the handler of runner.py:212, and the iterations
\* after in_flight do not run
Stop(cid, in_flight) ==
  /\ running
  /\ running' = FALSE
  /\ in_flight <= Len(strategy_ids)
  /\ IF in_flight = 0
     THEN /\ last_cid' = ""
          /\ last_closed' = {}
          /\ rerun_closed' = {}
          /\ last_events' = {}
          /\ UNCHANGED <<open_trades, positions, cooldowns, spent_in_window,
                         spending_window_start, trades, live_spend,
                         buy_orders, sell_orders>>
     ELSE /\ cid \in DOMAIN markets
          /\ Commit(process_price(RunnerState, get_market_price(cid),
                                  SubSeq(strategy_ids, 1, in_flight),
                                  [i \in 1..in_flight |->
                                     IF i = in_flight THEN "cancelled" ELSE "ok"],
                                  1, now, execution(mode, live_trader),
                                  enabled_strategy_ids))
          /\ last_cid' = cid
          /\ rerun_closed' = IF last_cid = cid THEN last_closed ELSE {}
  /\ UNCHANGED <<mode, live_trader, prices, strategy_ids, assets, markets, enabled_strategy_ids,
                 config_enabled, strategy_status, token_ids, now, probe>>

\* the system clock that datetime.now reads is set back by one unit
ClockSetBack ==
  /\ now > 0
  /\ now' = now - 1
  /\ last_cid' = ""
  /\ last_closed' = {}
  /\ rerun_closed' = {}
  /\ last_events' = {}
  /\ UNCHANGED <<mode, live_trader, prices, running, strategy_ids, assets, markets, open_trades, positions,
                 cooldowns, enabled_strategy_ids, config_enabled, strategy_status,
                 token_ids, spent_in_window, spending_window_start, trades,
                 live_spend, buy_orders, sell_orders, probe>>

\* every history variable of the engine is cleared by a step of the collector
FeedStep ==
  /\ last_cid' = ""
  /\ last_closed' = {}
  /\ rerun_closed' = {}
  /\ last_events' = {}
  /\ UNCHANGED <<mode, live_trader, running, strategy_ids, assets, open_trades,
                 positions, cooldowns, enabled_strategy_ids, config_enabled,
                 strategy_status, spent_in_window, spending_window_start, trades,
                 live_spend, buy_orders, sell_orders, probe>>

\* PriceCollector._collect_prices (price_collector.py:146-258): discovery
\* when nothing is tracked, else one pass over the tracked markets
PollPrices(direct, search, fresh, books) ==
  /\ IF DOMAIN markets = {}
     THEN LET D == discover_markets(markets, token_ids, direct, search, assets)
          IN markets' = D.markets /\ token_ids' = D.token_ids /\ prices' = prices
     ELSE /\ markets' = collect_prices(markets, token_ids, fresh, books)
          /\ prices' = save_prices(prices, markets, token_ids, fresh, books)
          /\ token_ids' = token_ids
  /\ now' = now
  /\ FeedStep

\* PriceCollector._refresh_markets (price_collector.py:260-277)
RefreshMarkets(direct, search) ==
  /\ LET M == [c \in (DOMAIN markets) \ expired(markets) |-> markets[c]]
         D == discover_markets(M, token_ids, direct, search, assets)
     IN IF Cardinality(DOMAIN M) < 3
        THEN markets' = D.markets /\ token_ids' = D.token_ids
        ELSE markets' = M /\ token_ids' = token_ids
  /\ now' = now
  /\ prices' = prices
  /\ FeedStep

\* one time unit, 300 seconds, passes: every tracked market is 300 seconds
\* closer to its end_time
Elapse ==
  /\ now < MaxTime
  /\ now' = now + 1
  /\ markets' = [c \in DOMAIN markets |->
                   [markets[c] EXCEPT !.time_remaining = @ - unit_seconds]]
  /\ token_ids' = token_ids
  /\ prices' = prices
  /\ FeedStep

\* AIStrategyOptimizer._apply_safe_improvements writes a status into the
\* strategies row of a strategy while the runner is running
SetStrategyStatus(sid, st) ==
  /\ sid \in DOMAIN strategy_status
  /\ strategy_status' = [strategy_status EXCEPT ![sid] = st]
  /\ last_cid' = ""
  /\ last_closed' = {}
  /\ rerun_closed' = {}
  /\ last_events' = {}
  /\ UNCHANGED <<mode, live_trader, prices, running, strategy_ids, assets, markets, open_trades, positions,
                 cooldowns, enabled_strategy_ids, config_enabled, token_ids,
                 spent_in_window, spending_window_start, trades, now,
                 live_spend, buy_orders, sell_orders, probe>>

\* ------------------------------------------------------------------ inputs
Quote(yp, np, yb, ya, nb, na, tr) ==
  [yes_price |-> yp, no_price |-> np, yes_bid |-> yb, yes_ask |-> ya,
   no_bid |-> nb, no_ask |-> na, time_remaining |-> tr]

\* quotes of the engine specification: books that move the YES side, which
\* the normal strategy trades, and books that move the NO side, which the
\* fade strategy trades once the YES bid is in its trigger band
Quotes ==
  {Quote(9, 8, yb, ya, Null, Null, tr) :
     yb \in {Null, 21}, ya \in {Null, 12}, tr \in {100, 600}}
  \cup
  {Quote(9, 8, yb, 12, nb, na, tr) :
     yb \in {Null, 92}, nb \in {Null, 22}, na \in {Null, 30}, tr \in {100, 600}}

\* --------------------------------------------------------- specifications
\* the state after StrategyRunner.__init__ and the first start() on an
\* empty Store
InitAll(md, trader, ids, as, cfg, toks) ==
  /\ mode = md
  /\ live_trader = trader
  /\ prices = EmptyDict
  /\ running = TRUE
  /\ strategy_ids = ids
  /\ assets = as
  /\ markets = EmptyDict
  /\ open_trades = EmptyDict
  /\ positions = EmptyDict
  /\ cooldowns = EmptyDict
  /\ config_enabled = cfg
  /\ strategy_status = load_strategies(EmptyDict, ids, cfg)
  /\ enabled_strategy_ids = load_enabled(EmptyDict, ids, cfg)
  /\ token_ids = toks
  /\ spent_in_window = 0
  /\ spending_window_start = 0
  /\ trades = <<>>
  /\ now = 0
  /\ live_spend = [t \in 0..MaxTime |-> 0]
  /\ last_cid = ""
  /\ last_closed = {}
  /\ rerun_closed = {}
  /\ last_events = {}
  /\ buy_orders = EmptyDict
  /\ sell_orders = EmptyDict
  /\ probe = NoProbe

\* create_live_trader found the credentials of the live mode
InitFull(md, ids, as, cfg, toks) == InitAll(md, md = "live", ids, as, cfg, toks)

\* every strategy enabled in the Config, every market with token ids
InitWith(md, ids, as) == InitFull(md, ids, as, {ids[i] : i \in 1..Len(ids)}, as)

\* the engine in paper mode (the default of Config.mode), a normal and a
\* fade strategy, one market
Init == InitWith("paper", <<"deep_10_20", "fade_90_80">>, {"btc"})

Collect == \E cid \in Conditions, q \in Quotes : CollectPrices(cid, q)

Process == \E cid \in Conditions, i \in 0..2, kind \in {"write_fail", "stats_fail"} :
             ProcessPrice(cid, i, kind)

Next == Collect \/ Process \/ Restart

Spec == Init /\ [][Next]_vars

\* ------------------------------------------------------------- properties
RowsOf(key) == {i \in 1..Len(trades) : KeyOf(trades[i]) = key}
OpenRowsOf(key) == {i \in RowsOf(key) : trades[i].status = "open"}
ClosedRows == {i \in 1..Len(trades) : trades[i].status = "closed"}

\* the quote the latest step processed
LastUpdate == get_market_price(last_cid)
\* the latest step processed a quote on which strategy sid's entry signal fires
FiredFor(sid) ==
  /\ last_cid # ""
  /\ check_entry(sid, FALSE, LastUpdate).should_enter

\* C1: at every moment the Store holds at most one open trades row for each
\* (strategy id, condition id), whatever updates, entries, exits, Store
\* write failures and restarts came before.
C1_AtMostOneOpen == \A key \in Keys : Cardinality(OpenRowsOf(key)) <= 1

\* C1 witness: after a restart restored an open trade, a quote on which the
\* strategy's entry signal fires was processed and the pair still has one row
C1_Witness ==
  \E key \in DOMAIN open_trades :
    /\ key \notin DOMAIN positions
    /\ key[2] = last_cid
    /\ FiredFor(key[1])
    /\ Cardinality(OpenRowsOf(key)) = 1

\* C2: for each (strategy id, condition id) the Store never holds more than
\* one trades row, open or closed, over the daemon's lifetime.
C2_OneShotPerMarket == \A key \in Keys : Cardinality(RowsOf(key)) <= 1

\* C2 witness: the pair's trade is closed, no cooldown is in force, a quote
\* on which the entry signal fires was processed, and no second row was made
C2_Witness ==
  \E i \in ClosedRows :
    /\ KeyOf(trades[i]) \notin DOMAIN open_trades
    /\ KeyOf(trades[i]) \notin DOMAIN cooldowns
    /\ KeyOf(trades[i]) \notin last_closed
    /\ trades[i].condition_id = last_cid
    /\ FiredFor(trades[i].strategy_id)
    /\ Cardinality(RowsOf(KeyOf(trades[i]))) = 1

\* C6: every closed trade has is_win true exactly when its exit reason is
\* TAKE_PROFIT.
C6_WinDefinition ==
  \A i \in ClosedRows : (trades[i].is_win = 1) <=> (trades[i].exit_reason = "TAKE_PROFIT")

\* C6 witness: a resolution exit stored as a loss next to a take-profit stored
\* as a win although its pnl is negative
C6_Witness ==
  /\ \E i \in ClosedRows : trades[i].exit_reason = "RESOLUTION_EXIT" /\ trades[i].is_win = 0
  /\ \E i \in ClosedRows :
       /\ trades[i].exit_reason = "TAKE_PROFIT"
       /\ trades[i].pnl.n < 0
       /\ trades[i].is_win = 1

ExitTarget(sid) ==
  IF DEFAULT_STRATEGIES[sid].direction = "fade"
  THEN 100 - DEFAULT_STRATEGIES[sid].exit
  ELSE DEFAULT_STRATEGIES[sid].exit

\* C7: every trade closed with TAKE_PROFIT has an exit price that is at
\* least the strategy's exit target and strictly above the entry price the
\* trade records, for normal and fade strategies, restored or not.
C7_TakeProfitAboveEntry ==
  \A i \in ClosedRows :
    trades[i].exit_reason = "TAKE_PROFIT" =>
      /\ trades[i].exit_price >= ExitTarget(trades[i].strategy_id)
      /\ trades[i].exit_price > trades[i].entry_price

\* C8: every closed trade has pnl_pct = (exit_price - entry_price) / entry_price
\* and pnl = shares * entry_price * pnl_pct, on the YES and on the NO side.
C8_PnlLaw ==
  \A i \in ClosedRows :
    LET r == trades[i]
        pct == Frac(r.exit_price - r.entry_price, r.entry_price)
    IN /\ FracEq(r.pnl_pct, pct)
       /\ FracEq(r.pnl, FracMul(FracMul(r.shares, PriceFrac(r.entry_price)), pct))

\* C8 witness: a closed NO trade and a closed YES trade, both with a pnl
\* other than zero
C8_Witness ==
  /\ \E i \in ClosedRows : trades[i].side = "NO" /\ trades[i].pnl.n # 0
  /\ \E i \in ClosedRows : trades[i].side = "YES" /\ trades[i].pnl.n # 0

\* C9: a restart with N open trades rows leaves an open-trades cache of
\* exactly N positions whose keys are the keys of those N rows.
C9_RestartRestoresOpen ==
  [][Restart =>
       /\ DOMAIN open_trades' = {KeyOf(trades'[i]) : i \in get_open_trades(trades')}
       /\ Cardinality(DOMAIN open_trades') = Cardinality(get_open_trades(trades'))]_vars

\* C9 witness: two open trades in the cache right after a restart, when no
\* strategy holds a Position object yet
C9_Witness ==
  /\ Cardinality(DOMAIN open_trades) = 2
  /\ DOMAIN positions = {}
  /\ Cardinality(get_open_trades(trades)) = 2

\* the step processes again the quote whose processing has just completed the
\* close of some trade
Rerun == last_closed # {} /\ last_cid' = last_cid

\* C10: processing the same price update again after it closed a trade
\* changes nothing: the Store, the open-trades cache and the spend window
\* are as they were.
C10_RerunIsNoOp ==
  [][Rerun =>
       /\ trades' = trades
       /\ open_trades' = open_trades
       /\ spent_in_window' = spent_in_window
       /\ spending_window_start' = spending_window_start]_vars

\* C10 as amended: processing the same price update again after it closed
\* the trade of a (strategy, market) pair leaves that pair alone: its row
\* is unchanged, no new row is made for it and it stays out of the cache.
C10_RerunLeavesClosedPair ==
  [][Rerun =>
       \A key \in last_closed :
         /\ key \notin DOMAIN open_trades'
         /\ {i \in 1..Len(trades') : KeyOf(trades'[i]) = key} = RowsOf(key)
         /\ \A i \in RowsOf(key) : trades'[i] = trades[i]]_vars

\* C10 witness: a quote was processed again right after it closed a trade,
\* the entry signal of the closed pair fires on it and the pair still has
\* its one closed row
C10_Witness ==
  \E key \in rerun_closed :
    /\ FiredFor(key[1])
    /\ key \notin DOMAIN open_trades
    /\ Cardinality(RowsOf(key)) = 1
    /\ \A i \in RowsOf(key) : trades[i].status = "closed"

\* --------------------------------------------------------- the spend window
\* the engine in live mode: three strategies whose entry band holds 0.19,
\* two markets, the clock and restarts
InitBudget == InitWith("live", <<"value_20_25", "value_20_30", "value_20_35">>, {"btc", "eth"})

\* a quote inside the entry band of the three strategies and below their
\* exit targets
BudgetQuotes == {Quote(19, 80, Null, 19, Null, Null, 600)}

CollectBudget == \E cid \in Conditions, q \in BudgetQuotes : CollectPrices(cid, q)

\* the venue may refuse the order of the first strategy of the registry
ProcessBudget == \E cid \in Conditions, i \in 0..1 : ProcessPrice(cid, i, "order_fail")

NextBudget == CollectBudget \/ ProcessBudget \/ Tick \/ Restart

SpecBudget == InitBudget /\ [][NextBudget]_vars

RECURSIVE SpendBetween(_, _)
\* the stakes of the live orders the venue accepted at the times a..b
SpendBetween(a, b) == IF a > b THEN 0 ELSE live_spend[a] + SpendBetween(a + 1, b)

\* C3: in live mode the stakes of the successful live entries whose entry
\* time falls inside any interval of the window's length (15 minutes) sum
\* to at most the spend cap (5.0).
C3_RollingBudget ==
  mode = "live" =>
    \A a \in 0..MaxTime :
      SpendBetween(a, Min(a + spending_window_duration - 1, MaxTime)) <= spending_limit

\* ------------------------------------------------------------- the cooldown
\* the engine in paper mode with one strategy, one market, the clock and
\* restarts
InitCooldown == InitWith("paper", <<"deep_10_20">>, {"btc"})

\* quotes inside the entry band, with time to spare and close to resolution,
\* and a quote at the exit target
CooldownQuotes == {Quote(9, 90, Null, Null, Null, Null, tr) : tr \in {100, 600}}
                    \cup {Quote(21, 78, 21, 22, Null, Null, 600)}

CollectCooldown == \E cid \in Conditions, q \in CooldownQuotes : CollectPrices(cid, q)

ProcessCooldown == \E cid \in Conditions, i \in 0..1, kind \in {"write_fail", "stats_fail"} :
                     ProcessPrice(cid, i, kind)

NextCooldown == CollectCooldown \/ ProcessCooldown \/ Tick \/ Restart

SpecCooldown == InitCooldown /\ [][NextCooldown]_vars

\* C4: after a trade of a (strategy, market) pair is closed with
\* RESOLUTION_EXIT at time t, no entry for the pair is made before
\* t + the cooldown duration (15 minutes).
C4_CooldownGate ==
  \A i \in ClosedRows :
    trades[i].exit_reason = "RESOLUTION_EXIT" =>
      \A j \in RowsOf(KeyOf(trades[i])) :
        j > i => trades[j].entry_time >= trades[i].exit_time + cooldown_duration

\* C4 witness: a resolution exit armed the cooldown of a pair, and while it
\* runs a quote on which the pair's entry signal fires was processed without
\* a new row being made
C4_Witness ==
  \E i \in ClosedRows :
    /\ trades[i].exit_reason = "RESOLUTION_EXIT"
    /\ KeyOf(trades[i]) \in DOMAIN cooldowns
    /\ now < trades[i].exit_time + cooldown_duration
    /\ now > trades[i].exit_time
    /\ KeyOf(trades[i]) \notin last_closed
    /\ trades[i].condition_id = last_cid
    /\ FiredFor(trades[i].strategy_id)
    /\ Len(trades) = i

\* ------------------------------------------------------------ check_entry
\* prices at and next to the thresholds and band edges of DEFAULT_STRATEGIES
EntryMids == {0, 5, 10, 15, 16, 20, 36, 60, 85, 95}
EntryAsks == {Null, 0, 5, 6, 10, 11, 35, 40}
EntryBids == {Null, 0, 79, 80, 84, 89, 90, 99, 100}
EntryTimes == {179, 180, 600}

EntryQuotes ==
  {Quote(yp, 8, yb, ya, Null, na, tr) :
     yp \in EntryMids, yb \in EntryBids, ya \in EntryAsks, na \in {Null, 30},
     tr \in EntryTimes}

\* a strategy without a position and a quote, check_entry not yet applied
InitEntry ==
  /\ mode = "paper"
  /\ live_trader = FALSE
  /\ prices = EmptyDict
  /\ running = TRUE
  /\ strategy_ids = <<"deep_10_20", "fade_90_80">>
  /\ assets = {"btc"}
  /\ markets = EmptyDict
  /\ open_trades = EmptyDict
  /\ positions = EmptyDict
  /\ cooldowns = EmptyDict
  /\ enabled_strategy_ids = StrategyIds
  /\ config_enabled = StrategyIds
  /\ strategy_status = [sid \in StrategyIds |-> "active"]
  /\ token_ids = {"btc"}
  /\ last_events = {}
  /\ buy_orders = EmptyDict
  /\ sell_orders = EmptyDict
  /\ spent_in_window = 0
  /\ spending_window_start = 0
  /\ trades = <<>>
  /\ now = 0
  /\ live_spend = [t \in 0..MaxTime |-> 0]
  /\ last_cid = ""
  /\ last_closed = {}
  /\ rerun_closed = {}
  /\ probe \in {[sid |-> sid, u |-> u, signal |-> NoSignal, applied |-> FALSE] :
                  sid \in StrategyIds, u \in EntryQuotes}

\* strategy.check_entry(price_update) (runner.py:244)
CheckEntry ==
  /\ ~probe.applied
  /\ probe' = [probe EXCEPT !.signal = check_entry(probe.sid, FALSE, probe.u),
                            !.applied = TRUE]
  /\ UNCHANGED <<mode, live_trader, prices, running, strategy_ids, assets, markets, open_trades, positions,
                 cooldowns, enabled_strategy_ids, config_enabled, strategy_status,
                 token_ids, spent_in_window,
                 spending_window_start, trades, now, live_spend, last_cid,
                 last_closed, rerun_closed, last_events, buy_orders, sell_orders>>

NextEntry == CheckEntry

SpecEntry == InitEntry /\ [][NextEntry]_vars

\* a price of the quote, or the mid price when the book has none (an empty
\* side is None, and 0.0 is what the order-book client reports for a level
\* without a price)
BookOrMid(book, mid) == IF book # Null /\ book # 0 THEN book ELSE mid

\* C5: every entry signal is given with at least 180 seconds remaining; a
\* normal strategy buys YES with the buy price (YES ask, else YES mid) in
\* (entry - 0.05, entry]; a fade strategy buys NO with the trigger price
\* (YES bid, else YES mid) in [entry, entry + width), width 0.10 from an
\* entry threshold of 0.90 on and 0.05 below.
C5_EntryWindow ==
  (probe.applied /\ probe.signal.should_enter) =>
    LET s == DEFAULT_STRATEGIES[probe.sid]
        u == probe.u
    IN /\ u.time_remaining >= 180
       /\ IF s.direction = "fade"
          THEN /\ probe.signal.side = "NO"
               /\ s.entry <= BookOrMid(u.yes_bid, u.yes_price)
               /\ BookOrMid(u.yes_bid, u.yes_price)
                    < s.entry + (IF s.entry >= 90 THEN 10 ELSE 5)
          ELSE /\ probe.signal.side = "YES"
               /\ s.entry - 5 < BookOrMid(u.yes_ask, u.yes_price)
               /\ BookOrMid(u.yes_ask, u.yes_price) <= s.entry

\* ------------------------------------------------------ the trade lifecycle
\* C11: closed is terminal: once a trade is closed, no later price update
\* closes it again or changes its exit price, exit reason or pnl, also when
\* a Store write of the close fails.
C11_ClosedIsTerminal ==
  [][\A i \in ClosedRows :
       /\ trades'[i].status = "closed"
       /\ trades'[i].exit_price = trades[i].exit_price
       /\ trades'[i].exit_reason = trades[i].exit_reason
       /\ trades'[i].pnl = trades[i].pnl]_vars

\* ------------------------------------------------------------ live orders
\* the engine in live mode with one strategy and two markets, of which only
\* btc carries token ids; orders and Store writes may fail
InitLive == InitFull("live", <<"deep_10_20">>, {"btc", "eth"}, {"deep_10_20"}, {"btc"})

\* a quote in the entry band, the same with the bid at the exit target, and
\* the same close to resolution
LiveQuotes == {Quote(9, 90, Null, Null, Null, Null, 600),
               Quote(9, 90, 21, Null, Null, Null, 600),
               Quote(9, 90, Null, Null, Null, Null, 100)}

CollectLive == \E cid \in Conditions, q \in LiveQuotes : CollectPrices(cid, q)

ProcessLive == \E cid \in Conditions, i \in 0..1, kind \in {"order_fail", "write_fail"} :
                 ProcessPrice(cid, i, kind)

NextLive == CollectLive \/ ProcessLive \/ Restart

SpecLive == InitLive /\ [][NextLive]_vars

\* C12: for each (strategy, market) pair the engine obtains at most one
\* successful buy order and sends at most one sell order over its lifetime,
\* whatever Store write failures and restarts happen.
C12_OrdersAtMostOnce ==
  \A key \in Keys : Count(buy_orders, key) <= 1 /\ Count(sell_orders, key) <= 1

EventsOf(events, kind) == {e \in events : e.kind = kind}

\* C13: when the live buy order of an entry fails, no trades row is
\* persisted for the pair, the pair is not put into the open-trades cache
\* and the spend of the window is not increased.
C13_FailedBuyChangesNothing ==
  [][\A e \in EventsOf(last_events', "buy_fail") :
       /\ {i \in 1..Len(trades') : KeyOf(trades'[i]) = e.key} = RowsOf(e.key)
       /\ e.key \notin DOMAIN open_trades'
       /\ spent_in_window'
            <= spent_in_window + bet_size * Cardinality(EventsOf(last_events', "buy_ok"))]_vars

\* C13 witness: a buy order has just failed after an earlier entry was
\* charged to the window; the failed pair has no row and is not cached
C13_Witness ==
  \E e \in EventsOf(last_events, "buy_fail") :
    /\ RowsOf(e.key) = {}
    /\ e.key \notin DOMAIN open_trades
    /\ spent_in_window = bet_size

C15_LiveRowHasBuyOrder ==
  mode = "live" =>
    \A i \in 1..Len(trades) : Count(buy_orders, KeyOf(trades[i])) >= 1

\* ------------------------------------------------------- the exit sweep
\* the pairs of the market the latest step processed
KeysOfLast == {key \in Keys : key[2] = last_cid}
\* the latest step processed an update closer to resolution than the threshold
NearResolution ==
  /\ last_cid # ""
  /\ LastUpdate.time_remaining # Null
  /\ LastUpdate.time_remaining < resolution_exit_threshold
\* the pairs whose close raised in the latest step
CloseRaised == {e.key : e \in EventsOf(last_events, "close_raised")}

C17_NoReentryInClosingUpdate ==
  \A e \in EventsOf(last_events, "closed") :
    /\ EventsOf(last_events, "entered") \cap {x \in last_events : x.key = e.key} = {}
    /\ e.key \notin DOMAIN open_trades
    /\ OpenRowsOf(e.key) = {}

\* C17 witness: the update that closed the pair's trade is one on which the
\* strategy's entry signal fires, and the pair still has its single row
C17_Witness ==
  \E e \in EventsOf(last_events, "closed") :
    /\ FiredFor(e.key[1])
    /\ Cardinality(RowsOf(e.key)) = 1

\* ------------------------------------------------------- strategy status
\* the engine in paper mode with one strategy, which the Config marks
\* enabled, while the optimizer rewrites its status in the Store
InitStatus ==
  InitFull("paper", <<"deep_10_20">>, {"btc", "eth"}, {"deep_10_20"}, {"btc", "eth"})

\* the values AIStrategyOptimizer writes, and the one _load_strategies reads
\* as enabled
StatusValues == {"disabled", "enabled", "active"}

CollectStatus == \E cid \in Conditions, q \in LiveQuotes : CollectPrices(cid, q)

ProcessStatus == \E cid \in Conditions : ProcessPrice(cid, 0, "ok")

Optimize == \E sid \in StrategyIds, st \in StatusValues : SetStrategyStatus(sid, st)

NextStatus == CollectStatus \/ ProcessStatus \/ Optimize \/ Restart

SpecStatus == InitStatus /\ [][NextStatus]_vars

\* C18: every trade opened belongs to a strategy whose status in the Store
\* is active at that moment, whatever the Config says.
C18_OnlyActiveStrategiesEnter ==
  [][\A i \in (1..Len(trades')) \ (1..Len(trades)) :
       /\ trades'[i].strategy_id \in DOMAIN strategy_status
       /\ strategy_status[trades'[i].strategy_id] = "active"]_vars

\* ------------------------------------------------- cooldowns over restart
\* C19: a cooldown that is armed and not yet expired when the daemon
\* restarts is still armed, with the same expiry, after the restart.
C19_CooldownSurvivesRestart ==
  [][Restart =>
       \A key \in DOMAIN cooldowns :
         now < cooldowns[key] =>
           key \in DOMAIN cooldowns' /\ cooldowns'[key] = cooldowns[key]]_vars

\* ------------------------------------------------------ update timestamps
\* the engine in paper mode with one strategy and one market under a wall
\* clock that may be set back
InitClock == InitWith("paper", <<"deep_10_20">>, {"btc"})

ProcessClock == \E cid \in Conditions : ProcessPrice(cid, 0, "ok")

NextClock == CollectCooldown \/ ProcessClock \/ Tick \/ ClockSetBack

SpecClock == InitClock /\ [][NextClock]_vars

\* C20: for each market the timestamps of the updates the engine acts on
\* are non-decreasing: an update on which a trade of the market is entered
\* or closed is not stamped earlier than the update on which an existing
\* trade of that market was entered.
C20_ActedOnTimestampsNonDecreasing ==
  [][\A i \in 1..Len(trades) :
       (/\ last_cid' # ""
        /\ trades[i].condition_id = last_cid'
        /\ last_events' # {})
       => LastUpdate'.timestamp >= trades[i].entry_time]_vars

\* ---------------------------------------------------------------- the feed
\* the collector and the engine in paper mode with one strategy; only btc is
\* a configured asset; nothing is tracked before the first discovery
InitFeed == InitFull("paper", <<"deep_10_20">>, {"btc"}, {"deep_10_20"}, {})

\* venue listings: past or ahead of their end, with and without token ids
Listings == {[end_in |-> e, yes_price |-> 9, no_price |-> 90, tokens |-> tk] :
               e \in {0, 500}, tk \in BOOLEAN}
ListingMaps == UNION {[D -> Listings] : D \in SUBSET Conditions}
\* the keyword search is made for the configured assets only
SearchMaps == UNION {[D -> {l \in Listings : ~l.tokens}] : D \in SUBSET {"btc"}}

\* fresh prices: none, in range, out of range
FreshPrices == {NoFresh,
                [present |-> TRUE, yes_price |-> 9, no_price |-> 90],
                [present |-> TRUE, yes_price |-> 150, no_price |-> 0 - 50]}

\* order books: both requests fail, a book at the exit target, a book with
\* a price above 1, an answer that makes the parsing raise
Books == {[yes_ok |-> FALSE, no_ok |-> FALSE, yes_bid |-> Null, yes_ask |-> Null,
           no_bid |-> Null, no_ask |-> Null, raises |-> FALSE],
          [yes_ok |-> TRUE, no_ok |-> TRUE, yes_bid |-> 21, yes_ask |-> 22,
           no_bid |-> 78, no_ask |-> 79, raises |-> FALSE],
          [yes_ok |-> TRUE, no_ok |-> TRUE, yes_bid |-> 21, yes_ask |-> 150,
           no_bid |-> Null, no_ask |-> Null, raises |-> FALSE],
          [yes_ok |-> TRUE, no_ok |-> TRUE, yes_bid |-> Null, yes_ask |-> Null,
           no_bid |-> Null, no_ask |-> Null, raises |-> TRUE]}

\* a poll with nothing tracked reads the listings, a poll with tracked
\* markets reads their fresh prices and order books
PollFeed ==
  \/ /\ DOMAIN markets = {}
     /\ \E direct \in ListingMaps, search \in SearchMaps :
          PollPrices(direct, search, EmptyDict, EmptyDict)
  \/ /\ DOMAIN markets # {}
     /\ \E fresh \in [DOMAIN markets -> FreshPrices], books \in [DOMAIN markets -> Books] :
          PollPrices(EmptyDict, EmptyDict, fresh, books)

RefreshFeed == \E direct \in ListingMaps, search \in SearchMaps :
                 RefreshMarkets(direct, search)

ProcessFeed == \E cid \in Conditions : ProcessPrice(cid, 0, "ok")

NextFeed == PollFeed \/ RefreshFeed \/ Elapse \/ ProcessFeed

SpecFeed == InitFeed /\ [][NextFeed]_vars

\* a price field is absent or a fraction of 1
ValidPrice(x) == x = Null \/ (0 <= x /\ x <= 100)

\* C21: every update handed to the engine carries yes and no prices, bids
\* and asks that are absent or within [0, 1].
C21_EmittedPricesInRange ==
  \A cid \in DOMAIN markets :
    LET u == get_market_price(cid) IN
    /\ ValidPrice(u.yes_price) /\ ValidPrice(u.no_price)
    /\ ValidPrice(u.yes_bid) /\ ValidPrice(u.yes_ask)
    /\ ValidPrice(u.no_bid) /\ ValidPrice(u.no_ask)

\* C22: every update the engine processes belongs to a market whose
\* deadline is still ahead: its time remaining is above 0.
C22_ProcessedBeforeDeadline ==
  last_cid # "" => LastUpdate.time_remaining > 0

\* the step is a poll in which both order-book requests of market cid failed
BookFetchFailed(cid) ==
  /\ cid \in DOMAIN markets
  /\ cid \in token_ids
  /\ cid \notin expired(markets)
  /\ \E fresh \in [DOMAIN markets -> FreshPrices], books \in [DOMAIN markets -> Books] :
       /\ ~books[cid].yes_ok /\ ~books[cid].no_ok /\ ~books[cid].raises
       /\ PollPrices(EmptyDict, EmptyDict, fresh, books)

\* C23: a poll in which the order-book fetch of a tracked market fails
\* leaves the bids and asks of the Market as they were.
C23_FailedFetchKeepsBidAsk ==
  [][\A cid \in Conditions :
       BookFetchFailed(cid) =>
         /\ markets'[cid].yes_bid = markets[cid].yes_bid
         /\ markets'[cid].yes_ask = markets[cid].yes_ask
         /\ markets'[cid].no_bid = markets[cid].no_bid
         /\ markets'[cid].no_ask = markets[cid].no_ask]_vars

\* C24: every market that enters the tracked set has its deadline strictly
\* ahead, a configured asset and both token ids.
C24_DiscoveredMarketsAreTradable ==
  [][\A cid \in (DOMAIN markets') \ (DOMAIN markets) :
       /\ markets'[cid].time_remaining > 0
       /\ cid \in assets
       /\ cid \in token_ids']_vars

\* ---------------------------------------------------------------- shutdown
\* the engine in live mode with one strategy; btc carries token ids; every
\* order is accepted and every Store write succeeds; stop() may be called
\* between two cycles or while an entry is in flight
ProcessStop == \E cid \in Conditions : ProcessPrice(cid, 0, "ok")

StopRunner == \E cid \in Conditions, i \in 0..1 : Stop(cid, i)

NextStop == CollectLive \/ ProcessStop \/ StopRunner \/ Restart

SpecStop == InitLive /\ [][NextStop]_vars

\* the live rows of a pair
LiveRowsOf(key) == {i \in RowsOf(key) : ~trades[i].is_paper}

\* C25: once stop() has returned, every buy order the executor accepted has
\* its trades row: a shutdown requested while an entry is in flight lets the
\* entry finish.
C25_StopKeepsPlacedOrders ==
  ~running =>
    \A key \in Keys : Count(buy_orders, key) <= Cardinality(LiveRowsOf(key))

\* ------------------------------------------------------------------ sizing
\* the engine in paper mode with a normal and a fade strategy on one market;
\* quotes with prices, bids and asks between 0 and 1 or absent, among them
\* zero prices and a NO ask above the fade strategy's exit threshold
InitSizing == InitWith("paper", <<"deep_10_20", "fade_90_80">>, {"btc"})

SizingQuotes ==
  {Quote(yp, np, yb, ya, Null, na, 600) :
     yp \in {0, 9, 92}, np \in {0, 8}, yb \in {Null, 92},
     ya \in {Null, 0, 8}, na \in {Null, 0, 8, 85}}

CollectSizing == \E cid \in Conditions, q \in SizingQuotes : CollectPrices(cid, q)

ProcessSizing == \E cid \in Conditions : ProcessPrice(cid, 0, "ok")

NextSizing == CollectSizing \/ ProcessSizing \/ Restart

SpecSizing == InitSizing /\ [][NextSizing]_vars

\* C26: every entry the latest update made was sized by Kelly with a
\* recommended stake above zero: a signal whose recommended amount is 0
\* places no order and persists no trade.
C26_EntryOnlyOnPositiveStake ==
  \A e \in EventsOf(last_events, "entered") :
    kelly_amount(e.price, DEFAULT_STRATEGIES[e.key[1]].exit).n > 0

\* C29: every persisted trade has shares above zero and an entry price above
\* zero, for normal and fade entries, on every quote whose prices, bids and
\* asks lie between 0 and 1 or are absent.
C29_RowsHavePositiveSharesAndPrice ==
  \A i \in 1..Len(trades) :
    /\ trades[i].entry_price > 0
    /\ trades[i].shares.d > 0
    /\ trades[i].shares.n > 0

\* C29 witness: the Store holds a normal entry and a fade entry, and the
\* latest update processed a fade signal priced at zero without a row for it
C29_Witness ==
  /\ \E i \in 1..Len(trades) : trades[i].side = "YES"
  /\ \E i \in 1..Len(trades) : trades[i].side = "NO"
  /\ last_cid # ""
  /\ LET signal == check_entry("fade_90_80", FALSE, LastUpdate) IN
       signal.should_enter /\ signal.price = 0

\* ---------------------------------------------- live mode without credentials
\* mode is live and create_live_trader returned None for a missing
\* credential: __init__ logs a warning and keeps live_trader = None
InitNoCredentials ==
  InitAll("live", FALSE, <<"deep_10_20">>, {"btc", "eth"}, {"deep_10_20"}, {"btc"})

ProcessNoCredentials == \E cid \in Conditions, i \in 0..1 : ProcessPrice(cid, i, "write_fail")

NextNoCredentials == CollectLive \/ ProcessNoCredentials \/ Restart

SpecNoCredentials == InitNoCredentials /\ [][NextNoCredentials]_vars

\* C27: in live mode without the live executor's credentials the runner
\* does not run: it processes no price update and records no trade, paper
\* or live.
C27_NoCredentialsNoTrading ==
  (mode = "live" /\ ~live_trader) => (last_cid = "" /\ Len(trades) = 0)

\* ------------------------------------------------------------------ startup
\* the engine in paper mode with one strategy and two markets; a start()
\* may fail while it loads the open trades
InitStart == InitWith("paper", <<"deep_10_20">>, {"btc", "eth"})

ProcessStart == \E cid \in Conditions : ProcessPrice(cid, 0, "ok")

NextStart == CollectLive \/ ProcessStart \/ Restart \/ FailedStart

SpecStart == InitStart /\ [][NextStart]_vars

\* the pairs of the open rows of the Store
StoreOpenKeys == {KeyOf(trades[i]) : i \in get_open_trades(trades)}

\* C28: a price update is processed only by a runner whose start() loaded
\* the open trades: after a start() whose load failed the loop does not run,
\* and no entry is evaluated on a cache that lacks an open row of the Store.
C28_NoEntryOnEmptyCache ==
  [][(last_cid' # "") => (running /\ StoreOpenKeys \subseteq DOMAIN open_trades)]_vars

\* C28 witness: the Store holds an open row, the start() of the process
\* failed at the load, the cache is empty and the runner does not run
C28_Witness ==
  /\ ~running
  /\ StoreOpenKeys # {}
  /\ DOMAIN open_trades = {}

\* C30: between two price updates the keys of the open-trades cache are the
\* pairs of the Store rows with status open, after any sequence of entries,
\* exits and Store write failures.
C30_CacheMirrorsStore == DOMAIN open_trades = StoreOpenKeys

\* C31: every update the engine processes is an observation the feed
\* stored: the prices table holds a row of that market, written by the poll
\* that left the Market as the engine reads it, with the same yes and no price.
C31_ProcessedUpdateIsStoredRow ==
  last_cid # "" =>
    /\ last_cid \in DOMAIN prices
    /\ FracEq(PriceFrac(LastUpdate.yes_price), prices[last_cid].yes_price)
    /\ FracEq(PriceFrac(LastUpdate.no_price), prices[last_cid].no_price)

\* ------------------------------------------------------- pure evaluations
\* the state of InitEntry with the evaluations of the set S to make
InitPure(S) ==
  /\ mode = "paper"
  /\ live_trader = FALSE
  /\ prices = EmptyDict
  /\ running = TRUE
  /\ strategy_ids = <<"deep_10_20", "fade_90_80">>
  /\ assets = {"btc"}
  /\ markets = EmptyDict
  /\ open_trades = EmptyDict
  /\ positions = EmptyDict
  /\ cooldowns = EmptyDict
  /\ enabled_strategy_ids = StrategyIds
  /\ config_enabled = StrategyIds
  /\ strategy_status = [sid \in StrategyIds |-> "active"]
  /\ token_ids = {"btc"}
  /\ last_events = {}
  /\ buy_orders = EmptyDict
  /\ sell_orders = EmptyDict
  /\ spent_in_window = 0
  /\ spending_window_start = 0
  /\ trades = <<>>
  /\ now = 0
  /\ live_spend = [t \in 0..MaxTime |-> 0]
  /\ last_cid = ""
  /\ last_closed = {}
  /\ rerun_closed = {}
  /\ probe \in S

\* the evaluation is made and its result kept
Evaluate(result) ==
  /\ ~probe.applied
  /\ probe' = result
  /\ UNCHANGED <<mode, live_trader, prices, running, strategy_ids, assets, markets,
                 open_trades, positions, cooldowns, enabled_strategy_ids,
                 config_enabled, strategy_status, token_ids, spent_in_window,
                 spending_window_start, trades, now, live_spend, last_cid,
                 last_closed, rerun_closed, last_events, buy_orders, sell_orders>>

\* ------------------------------------------------- the strategies of a Config
\* BaseStrategy.break_even_win_rate (base.py:61-74), which _load_strategies
\* reads for its log line (runner.py:147-152): it divides by the effective
\* entry, and by 100 + win_pct, which is 0 for an effective exit of 0
break_even_raises(c) ==
  LET effective_entry == IF c.direction = "fade" THEN 100 - c.entry ELSE c.entry
      effective_exit == IF c.direction = "fade" THEN 100 - c.exit ELSE c.exit
  IN effective_entry = 0 \/ effective_exit = 0

\* create_strategy (volatility.py:16-45) and BaseStrategy.__init__
\* (base.py:42-59): the fields of the StrategyConfig as they are
create_strategy(c) == [entry |-> c.entry, exit |-> c.exit, direction |-> c.direction]

RECURSIVE load_registry(_, _, _)
\* the loop of _load_strategies (runner.py:113-152) from the i-th
\* StrategyConfig on: the registry when it ends, and whether it raised
load_registry(configs, i, registry) ==
  IF i > Len(configs) THEN [strategies |-> registry, raised |-> FALSE]
  ELSE LET added == Append(registry, create_strategy(configs[i])) IN
       IF break_even_raises(configs[i]) THEN [strategies |-> added, raised |-> TRUE]
       ELSE load_registry(configs, i + 1, added)

\* thresholds in percent and the directions a Config may carry
ConfigThresholds == {0, 10, 20, 100}
StrategyConfigs == [entry : ConfigThresholds, exit : ConfigThresholds,
                    direction : {"normal", "fade"}]
ConfigLists == {<<c>> : c \in StrategyConfigs}
               \cup {<<c, d>> : c \in StrategyConfigs, d \in StrategyConfigs}

InitConfig ==
  InitPure({[configs |-> cs, strategies |-> <<>>, started |-> FALSE, applied |-> FALSE] :
              cs \in ConfigLists})

\* start() of a new process on the Config: _load_strategies, and the loop
\* started unless it raised (runner.py:59-86)
StartConfig ==
  LET L == load_registry(probe.configs, 1, <<>>) IN
  Evaluate([probe EXCEPT !.strategies = L.strategies,
                         !.started = start_running(~L.raised),
                         !.applied = TRUE])

NextConfig == StartConfig

SpecConfig == InitConfig /\ [][NextConfig]_vars

\* the thresholds of a strategy are in the order of its direction
ThresholdsOrdered(c) ==
  IF c.direction = "fade" THEN c.exit < c.entry ELSE c.exit > c.entry

\* C32: in a started daemon every strategy of the registry has its exit
\* threshold above its entry threshold when normal and below it when fade; a
\* Config with a strategy that contradicts this does not start.
C32_RegistryThresholdsOrdered ==
  (probe.applied /\ probe.started) =>
    \A i \in 1..Len(probe.strategies) : ThresholdsOrdered(probe.strategies[i])

\* ------------------------------------------------------- the exit decision
\* check_exit of every strategy on a position of the strategy's side, with
\* bids and mid prices at and next to the exit targets and remaining times
\* at and next to the resolution threshold
ExitBids == {Null, 0, 19, 20, 24, 25, 29, 30, 31, 70}
ExitMids == {10, 30, 50}
ExitTimes == {Null, 119, 120, 600}
ExitEntryPrices == {5, 20, 30}

InitExit ==
  InitPure({[sid |-> sid,
             position |-> [side |-> IF DEFAULT_STRATEGIES[sid].direction = "fade"
                                    THEN "NO" ELSE "YES",
                           entry_price |-> e, shares |-> Frac(bet_size * 100, e)],
             u |-> Quote(mid, mid, bid, Null, bid, Null, tr),
             exit |-> [signal |-> "HOLD", price |-> Null],
             applied |-> FALSE] :
              sid \in StrategyIds, e \in ExitEntryPrices, bid \in ExitBids,
              mid \in ExitMids, tr \in ExitTimes})

\* strategy.check_exit(position, price_update) (runner.py:388-396)
CheckExit ==
  Evaluate([probe EXCEPT !.exit = check_exit(probe.sid, probe.position, probe.u,
                                             resolution_exit_threshold),
                         !.applied = TRUE])

NextExit == CheckExit

SpecExit == InitExit /\ [][NextExit]_vars

\* C33: check_exit returns TAKE_PROFIT iff the current price (the bid of the
\* held side, else its mid price) is at least the exit target (the exit
\* threshold, 1 - exit threshold for fade) and above the entry price;
\* otherwise RESOLUTION_EXIT iff the remaining time is below the resolution
\* threshold; otherwise HOLD; TIME_STOP is never returned, and the price
\* returned is the current price.
C33_ExitDecision ==
  probe.applied =>
    LET u == probe.u
        current_price == IF probe.position.side = "YES"
                         THEN BookOrMid(u.yes_bid, u.yes_price)
                         ELSE BookOrMid(u.no_bid, u.no_price)
        take_profit == /\ current_price >= ExitTarget(probe.sid)
                       /\ current_price > probe.position.entry_price
        resolution == u.time_remaining # Null
                      /\ u.time_remaining < resolution_exit_threshold
    IN /\ probe.exit.price = current_price
       /\ probe.exit.signal =
            (IF take_profit THEN "TAKE_PROFIT"
             ELSE IF resolution THEN "RESOLUTION_EXIT" ELSE "HOLD")

\* ------------------------------------------------ the order of the registry
\* the engine in live mode with three strategies in the order DEFAULT_STRATEGIES
\* lists them, and two markets; a quote on which the first fires and a quote
\* on which the second and the third fire together
InitOrder == InitWith("live", <<"deep_10_20", "high_60_70", "fade_80_70">>, {"btc", "eth"})

OrderQuotes == {Quote(9, 90, Null, Null, Null, Null, 600),
                Quote(60, 40, 82, Null, Null, Null, 600)}

CollectOrder == \E cid \in Conditions, q \in OrderQuotes : CollectPrices(cid, q)

ProcessOrder == \E cid \in Conditions : ProcessPrice(cid, 0, "ok")

NextOrder == CollectOrder \/ ProcessOrder \/ Restart

SpecOrder == InitOrder /\ [][NextOrder]_vars

\* the strategy ids in ascending order
SortedIds ==
  <<"deep_10_20", "deep_10_25", "deep_15_25", "deep_15_30", "fade_80_70",
    "fade_85_75", "fade_90_80", "high_60_70", "mid_35_50", "mid_40_50",
    "mid_40_55", "ultra_05_10", "ultra_05_15", "ultra_05_20", "value_20_25",
    "value_20_30", "value_20_35">>
IdRank(sid) == CHOOSE i \in 1..Len(SortedIds) : SortedIds[i] = sid

\* C34: when the strategies that fire on one update are not all admitted by
\* the spend window, the admitted entries are those of the lowest strategy
\* ids: every entry made has a lower id than every entry the window rejected.
C34_LowestIdsAdmitted ==
  \A a \in EventsOf(last_events, "entered"), r \in EventsOf(last_events, "limit_hit") :
    IdRank(a.key[1]) < IdRank(r.key[1])

\* --------------------------------------------------------- the spend gate
\* the pairs the spend gate rejected, and the orders the venue accepted, in
\* the step that ends in the primed state
RejectedNext == {e.key : e \in EventsOf(last_events', "limit_hit")}
AcceptedNext == {e.key : e \in EventsOf(last_events', "buy_ok")}

\* C35: a candidate entry that the spend gate rejects changes nothing: the
\* amount spent in the window grows by the stakes of the orders accepted for
\* other strategies only, no order is placed for the candidate, no row of
\* its pair is written and its pair does not enter the cache; a step that
\* only rejects leaves amount, orders, cache and Store as they were.
C35_RejectionChangesNothing ==
  [][RejectedNext # {} =>
       /\ spent_in_window' = spent_in_window + bet_size * Cardinality(AcceptedNext)
       /\ \A key \in RejectedNext :
            /\ Count(buy_orders', key) = Count(buy_orders, key)
            /\ key \notin DOMAIN open_trades'
            /\ \A i \in 1..Len(trades') : KeyOf(trades'[i]) = key => i <= Len(trades)
       /\ (AcceptedNext = {} /\ EventsOf(last_events', "closed") = {}) =>
            /\ trades' = trades
            /\ open_trades' = open_trades
            /\ buy_orders' = buy_orders]_vars

\* C35 witness: the window holds the whole cap and the latest update did
\* nothing but reject a candidate
C35_Witness ==
  /\ spent_in_window = spending_limit
  /\ last_events # {}
  /\ \A e \in last_events : e.kind = "limit_hit"

\* the pairs for which the step that ends in the primed state persisted an
\* open trade
EnteredNext == {e.key : e \in EventsOf(last_events', "entered")}

\* C36: every entry that persists an open trade, in paper mode as in live
\* mode, adds its stake to the amount spent in the current window: after a
\* step with entries the window holds at least their stakes.
C36_EveryEntryIsCharged ==
  [][spent_in_window' >= bet_size * Cardinality(EnteredNext)]_vars

\* ------------------------------------------------------------- the Sizer
\* calculate_bet_for_strategy on entry and exit prices and win rates in
\* percent (Null: no win rate given), at and next to break-even, with the
\* exit above and below the entry
SizerBankrolls == {100, 1000}
SizerEntries == {8, 10, 20, 85}
SizerExits == {10, 20, 25, 80}
SizerWinRates == {Null, 40, 50, 80}

InitSizer ==
  InitPure({[bankroll |-> b, entry_price |-> p, exit_price |-> q, win_rate |-> w,
             bet |-> [amount |-> Frac(0, 1), percentage |-> Frac(0, 1),
                      kelly_fraction |-> Frac(0, 1)],
             applied |-> FALSE] :
              b \in SizerBankrolls, p \in SizerEntries, q \in SizerExits,
              w \in SizerWinRates})

\* calculate_bet_for_strategy(bankroll, entry_price, exit_price, win rate,
\* fraction=0.5)
SizeBet ==
  Evaluate([probe EXCEPT !.bet = calculate_bet_for_strategy(
                                   probe.bankroll, probe.entry_price,
                                   probe.exit_price, probe.win_rate, Frac(1, 2)),
                         !.applied = TRUE])

NextSizer == SizeBet

SpecSizer == InitSizer /\ [][NextSizer]_vars

\* the raw Kelly percentage of the evaluation in exact arithmetic:
\* w - (1 - w) / winLossRatio with winLossRatio = (q - p) / p and, when no
\* win rate is given, w = 1 / (1 + winLossRatio) + 0.05
RawKelly ==
  LET winLossRatio == Frac(probe.exit_price - probe.entry_price, probe.entry_price)
      breakEven == FracDiv(Frac(1, 1), FracAdd(Frac(1, 1), winLossRatio))
      w == IF probe.win_rate = Null THEN FracAdd(breakEven, Frac(5, 100))
           ELSE PriceFrac(probe.win_rate)
  IN FracSub(w, FracDiv(FracSub(Frac(1, 1), w), winLossRatio))

\* raw Kelly times the Kelly fraction, clamped into [minBetPct, maxBetPct]
ClampedPct ==
  LET pct == FracMul(RawKelly, Frac(1, 2)) IN
  IF FracLt(pct, Frac(3, 100)) THEN Frac(3, 100)
  ELSE IF FracLt(Frac(15, 100), pct) THEN Frac(15, 100) ELSE pct

\* C37: the Sizer returns amount 0 when the raw Kelly percentage
\* w - (1 - w) / winLossRatio is at most 0 and otherwise the amount
\* bankroll * pct, pct the Kelly percentage times the Kelly fraction clamped
\* into [minBetPct, maxBetPct], so that an amount that is not 0 lies between
\* minBetPct * bankroll and maxBetPct * bankroll; without a win rate
\* w = breakEven + 0.05 (the evaluations with exit = entry, in which the
\* ratio is 0 and the raw Kelly percentage has no value, are left out).
C37_SizerAmount ==
  (probe.applied /\ probe.exit_price # probe.entry_price) =>
    /\ RawKelly.n <= 0 => probe.bet.amount.n = 0
    /\ RawKelly.n > 0 =>
         FracEq(probe.bet.amount, FracMul(Frac(probe.bankroll, 1), ClampedPct))
    /\ probe.bet.amount.n # 0 =>
         /\ ~FracLt(probe.bet.amount, FracMul(Frac(probe.bankroll, 1), Frac(3, 100)))
         /\ ~FracLt(FracMul(Frac(probe.bankroll, 1), Frac(15, 100)), probe.bet.amount)

\* ------------------------------------------------- exits after a restart
\* the temporary Position _check_exits builds from a cached trade when the
\* strategy tracks none, as after rehydration (runner.py:388-400)
temporary_position(trade) ==
  [side |-> trade.side, entry_price |-> trade.entry_price, shares |-> trade.shares]

\* the pairs with an open trade whose position the running process tracks,
\* in a market that has a quote
TrackedOpen ==
  {key \in DOMAIN open_trades \cap DOMAIN positions : key[2] \in DOMAIN markets}

\* C38: for an open trade and the current PriceUpdate of its market the exit
\* decision, signal and exit price, is the same on the position the running
\* process opened as on the position built from the rehydrated trade.
C38_SameDecisionAfterRestart ==
  \A key \in TrackedOpen :
    check_exit(key[1], positions[key], get_market_price(key[2]),
               resolution_exit_threshold)
      = check_exit(key[1], temporary_position(open_trades[key]),
                   get_market_price(key[2]), resolution_exit_threshold)

\* ------------------------------------------------- errors of one strategy
\* the position _check_exits evaluates for an open trade (runner.py:388-400)
PositionOf(key) ==
  IF key \in DOMAIN positions THEN positions[key]
  ELSE temporary_position(open_trades[key])

\* the pair holds an open trade for which check_exit, on the update of the
\* step that ends in the primed state, does not answer HOLD
ExitDue(key) ==
  /\ key[2] = last_cid'
  /\ key \in DOMAIN open_trades
  /\ check_exit(key[1], PositionOf(key), get_market_price(key[2]),
                resolution_exit_threshold).signal # "HOLD"

\* the step that ends in the primed state closed the pair's trade or raised
\* while closing it
ExitAttemptedNext(key) ==
  \E e \in last_events' : e.key = key /\ e.kind \in {"closed", "close_raised"}

\* C39: an exception raised while one strategy is evaluated on an update
\* neither keeps the other strategies from being evaluated on that update
\* nor stops the run loop: in every step that processes an update the loop
\* stays running and every strategy of the registry whose open trade is due
\* for an exit has the exit made or attempted, whatever another strategy met.
C39_EveryStrategyChecked ==
  [][last_cid' # "" =>
       /\ running'
       /\ \A i \in 1..Len(strategy_ids) :
            ExitDue(<<strategy_ids[i], last_cid'>>) =>
              ExitAttemptedNext(<<strategy_ids[i], last_cid'>>)]_vars

\* C39 witness: on the latest update the close of the first strategy's trade
\* raised and the trade of the second strategy was closed
C39_Witness ==
  /\ last_cid # ""
  /\ running
  /\ Len(strategy_ids) >= 2
  /\ \E e \in last_events :
       e.kind = "close_raised" /\ e.key = <<strategy_ids[1], last_cid>>
  /\ \E e \in last_events :
       e.kind = "closed" /\ e.key = <<strategy_ids[2], last_cid>>

\* -------------------------------------------------- the size of the orders
\* the orders the venue accepted in the latest step
AcceptedOrders == {e \in last_events : e.kind \in {"buy_ok", "sell_ok"}}

\* C40: in live mode the buy order at entry and the sell order at exit carry
\* the shares the trade records (stake / entry price): every order the venue
\* accepted for a pair has the size of the shares of that pair's trade row,
\* so that a closed trade leaves nothing at the venue.
C40_OrdersCarryRecordedShares ==
  \A e \in AcceptedOrders :
    \A i \in RowsOf(e.key) : FracEq(e.size, trades[i].shares)

====
